---- MODULE Spec2Model ----
(***************************************************************************)
(* Model of the transaction submission pipeline of xrpl-mastra-ai:         *)
(*   - the connection registry   (src/helpers/xrpl-client.ts)              *)
(*   - the submission engine     (tools/transactions/shared/transaction.ts)*)
(*   - the transaction tool factory (tools/transactions/factory)           *)
(*   - the token issuance workflow  (workflows/token-issuance-workflow.ts) *)
(* Callers are cooperative tasks on one thread: a step of the model runs   *)
(* one task from a suspension point (an awaited transport call) to the     *)
(* next one.                                                               *)
(***************************************************************************)
EXTENDS Integers, Sequences, FiniteSets, TLC

\* ---------------------------------------------------------------- bounds
MaxClients == 3      \* Client objects constructed in one behaviour
MaxCalls == 4        \* top-level calls started in one behaviour

Procs == {"t1", "t2"}          \* concurrent callers (cooperative tasks)
Networks == {"wss://a", "wss://b"}   \* endpoints known to the registry
MainNetworks == {"wss://a"}          \* endpoints the callers of Spec contend for
ClientIds == 1..MaxClients
Wf == "wf"                     \* the task running the token issuance workflow
Tasks == Procs \cup {Wf}

None == 0            \* "no entry" / undefined object reference
Undef == "undefined" \* a JavaScript undefined credential
Empty == ""          \* an empty (falsy) string credential

\* values a string-typed optional credential can take
Creds == {Undef, Empty, "s"}

\* JavaScript truthiness of an optional string
Truthy(x) == x \notin {Undef, Empty}

\* values of the seed argument: those of a credential, and a non-empty string
\* that is not a well-formed seed
Seeds == Creds \cup {"bad"}

\* Wallet.fromSeed(seed) (transaction.ts 57): the wallet of a well-formed seed;
\* it throws on any other string
Wallet_fromSeed(seed) == IF seed = "s" THEN "wallet of s" ELSE "throws"

VARIABLES
  clientInstances,   \* the registry: network -> Client object (None = no entry)
  conn,              \* Client object -> state of its transport:
                     \*   "closed", "connecting" or "open"
  clientUrl,         \* Client object -> network it was constructed for
  nextClient,        \* identity of the next Client object to be constructed
  proc,              \* per caller: the call it is running and where it is suspended
                     \*   (made: its getXrplClient constructed the object it holds)
  calls,             \* number of top-level calls started
  lastAcquired,      \* network -> object returned by the latest getXrplClient
                     \*   since the last disconnectXrplClient activity (history)
  lastReleased,      \* network -> objects un-cached by completed
                     \*   disconnectXrplClient calls since the last getXrplClient (history)
  wf                 \* the token issuance workflow run: stage, context, sub-operations

vars == <<clientInstances, conn, clientUrl, nextClient, proc, calls,
          lastAcquired, lastReleased, wf>>

regVars == <<clientInstances, conn, clientUrl, nextClient>>

\* Client.isConnected(): the objects whose transport is open
connected == {c \in ClientIds : conn[c] = "open"}

\* ------------------------------------------------------------ caller state
\* a transaction descriptor; kind "none" stands for an undefined txn
NoTxn == [kind |-> "none", Account |-> "", currency |-> << >>, issuer |-> "", value |-> ""]

\* what a caller handed to the transport's submitAndWait
NoSent == [kind |-> "none", txn |-> NoTxn, blob |-> Undef, wallet |-> Undef,
           autofill |-> FALSE]

\* the input of a transaction tool: { network, seed?, signature?, txn }
NoContext == [seed |-> Undef, signature |-> Undef, txn |-> NoTxn]

IdleProc ==
  [op |-> "none", pc |-> "idle", net |-> "",
   factory |-> "none", context |-> NoContext,
   seed |-> Undef, signature |-> Undef, txn |-> NoTxn,
   client |-> None, made |-> FALSE, dcl |-> None,
   pending |-> "none", result |-> "none",
   sent |-> NoSent, trace |-> << >>]

Has(s, e) == \E i \in 1..Len(s) : s[i] = e
Count(t, e) == Cardinality({i \in 1..Len(t) : t[i] = e})

\* the workflow before it is started
NoWorkflow ==
  [status |-> "idle", stage |-> 0, failedStage |-> 0, error |-> "",
   holdersCount |-> 0, hasFlags |-> FALSE, flags |-> << >>, domain |-> << >>,
   currency |-> << >>, mintAmount |-> "",
   ops |-> [k \in 1..4 |-> << >>],
   issuer |-> None, holders |-> << >>, txnResults |-> << >>,
   nextWallet |-> 1]

\* a call that ran to completion (returned or threw)
Finished(p) == proc[p].pc = "idle" /\ proc[p].op # "none"

Init ==
  /\ clientInstances = [n \in Networks |-> None]
  /\ conn = [c \in ClientIds |-> "closed"]
  /\ clientUrl = [c \in ClientIds |-> None]
  /\ nextClient = 1
  /\ proc = [p \in Tasks |-> IdleProc]
  /\ wf = NoWorkflow
  /\ calls = 0
  /\ lastAcquired = [n \in Networks |-> None]
  /\ lastReleased = [n \in Networks |-> {}]

\* --------------------------------------------------- connection registry
\* getXrplClient without the cache lookup: every call constructs and caches
\* a new object
getXrplClient_NoCache(p, r) ==
  LET n  == r.net
      r0 == [r EXCEPT !.trace = Append(@, "acquire")]
  IN
  /\ lastReleased' = [lastReleased EXCEPT ![n] = {}]
  /\ nextClient <= MaxClients
  /\ clientInstances' = [clientInstances EXCEPT ![n] = nextClient]
  /\ clientUrl' = [clientUrl EXCEPT ![nextClient] = n]
  /\ nextClient' = nextClient + 1
  /\ lastAcquired' = [lastAcquired EXCEPT ![n] = nextClient]
  /\ conn' = [conn EXCEPT ![nextClient] = "connecting"]
  /\ proc' = [proc EXCEPT ![p] =
       [r0 EXCEPT !.pc = "connecting", !.client = nextClient,
                  !.made = TRUE,
                  !.trace = Append(@, "connect")]]

\* getXrplClient that writes the entry after the awaited connect instead of
\* before it: at the suspension the new object is not cached yet
getXrplClient_CacheAfterConnect(p, r) ==
  LET n  == r.net
      r0 == [r EXCEPT !.trace = Append(@, "acquire")]
  IN
  /\ lastReleased' = [lastReleased EXCEPT ![n] = {}]
  /\ IF clientInstances[n] # None
       THEN LET existingClient == clientInstances[n] IN
            /\ lastAcquired' = [lastAcquired EXCEPT ![n] = existingClient]
            /\ UNCHANGED <<clientInstances, clientUrl, nextClient>>
            /\ IF existingClient \notin connected
                 THEN /\ conn' = [conn EXCEPT ![existingClient] = "connecting"]
                      /\ proc' = [proc EXCEPT ![p] =
                           [r0 EXCEPT !.pc = "connecting", !.client = existingClient,
                                      !.trace = Append(@, "connect")]]
                 ELSE /\ UNCHANGED conn
                      /\ proc' = [proc EXCEPT ![p] =
                           [r0 EXCEPT !.pc = "acquired", !.client = existingClient]]
       ELSE /\ nextClient <= MaxClients
            /\ UNCHANGED clientInstances
            /\ clientUrl' = [clientUrl EXCEPT ![nextClient] = n]
            /\ nextClient' = nextClient + 1
            /\ lastAcquired' = [lastAcquired EXCEPT ![n] = nextClient]
            /\ conn' = [conn EXCEPT ![nextClient] = "connecting"]
            /\ proc' = [proc EXCEPT ![p] =
                 [r0 EXCEPT !.pc = "connecting", !.client = nextClient,
                            !.made = TRUE,
                            !.trace = Append(@, "connect")]]

\* getXrplClient that gives up a cached object that is not connected: it
\* constructs and caches a new one in its place
getXrplClient_ReplaceDead(p, r) ==
  LET n  == r.net
      r0 == [r EXCEPT !.trace = Append(@, "acquire")]
  IN
  /\ lastReleased' = [lastReleased EXCEPT ![n] = {}]
  /\ IF clientInstances[n] # None /\ clientInstances[n] \in connected
       THEN LET existingClient == clientInstances[n] IN
            /\ lastAcquired' = [lastAcquired EXCEPT ![n] = existingClient]
            /\ UNCHANGED <<clientInstances, clientUrl, nextClient, conn>>
            /\ proc' = [proc EXCEPT ![p] =
                 [r0 EXCEPT !.pc = "acquired", !.client = existingClient]]
       ELSE /\ nextClient <= MaxClients
            /\ clientInstances' = [clientInstances EXCEPT ![n] = nextClient]
            /\ clientUrl' = [clientUrl EXCEPT ![nextClient] = n]
            /\ nextClient' = nextClient + 1
            /\ lastAcquired' = [lastAcquired EXCEPT ![n] = nextClient]
            /\ conn' = [conn EXCEPT ![nextClient] = "connecting"]
            /\ proc' = [proc EXCEPT ![p] =
                 [r0 EXCEPT !.pc = "connecting", !.client = nextClient,
                            !.made = TRUE,
                            !.trace = Append(@, "connect")]]

\* getXrplClient (xrpl-client.ts 35-69), from its invocation to its first
\* suspension or return.  r is the caller's record with its inputs filled in.
\*   cached and connected      : return the cached object
\*   cached and not connected  : await existingClient.connect() on that object
\*   not cached                : construct, cache, then await client.connect()
getXrplClient(p, r) ==
  LET n  == r.net
      r0 == [r EXCEPT !.trace = Append(@, "acquire")]
  IN
  /\ lastReleased' = [lastReleased EXCEPT ![n] = {}]
  /\ IF clientInstances[n] # None
       THEN LET existingClient == clientInstances[n] IN
            /\ lastAcquired' = [lastAcquired EXCEPT ![n] = existingClient]
            /\ UNCHANGED <<clientInstances, clientUrl, nextClient>>
            /\ IF existingClient \notin connected
                 THEN /\ conn' = [conn EXCEPT ![existingClient] = "connecting"]
                      /\ proc' = [proc EXCEPT ![p] =
                           [r0 EXCEPT !.pc = "connecting", !.client = existingClient,
                                      !.trace = Append(@, "connect")]]
                 ELSE /\ UNCHANGED conn
                      /\ proc' = [proc EXCEPT ![p] =
                           [r0 EXCEPT !.pc = "acquired", !.client = existingClient]]
       ELSE /\ nextClient <= MaxClients
            /\ clientInstances' = [clientInstances EXCEPT ![n] = nextClient]
            /\ clientUrl' = [clientUrl EXCEPT ![nextClient] = n]
            /\ nextClient' = nextClient + 1
            /\ lastAcquired' = [lastAcquired EXCEPT ![n] = nextClient]
            /\ conn' = [conn EXCEPT ![nextClient] = "connecting"]
            /\ proc' = [proc EXCEPT ![p] =
                 [r0 EXCEPT !.pc = "connecting", !.client = nextClient,
                            !.made = TRUE,
                            !.trace = Append(@, "connect")]]

\* the call returns or throws to its caller with the given outcome
Return(r, outcome) == [r EXCEPT !.pc = "idle", !.result = outcome]

\* disconnectXrplClient without the `if (client)` guard
disconnectXrplClient_NoGuard(r, reg) ==
  LET r0     == [r EXCEPT !.trace = Append(@, "release")]
      client == reg[r.net]
  IN [r0 EXCEPT !.pc = "disconnecting", !.dcl = client,
                !.trace = Append(@, "disconnect")]

\* disconnectXrplClient (xrpl-client.ts 75-87), from its invocation to its
\* suspension in client.disconnect(), or to its return when nothing is cached.
\* reg is the registry as the call finds it.
disconnectXrplClient(r, reg) ==
  LET r0     == [r EXCEPT !.trace = Append(@, "release")]
      client == reg[r.net]
  IN
  IF client # None
    THEN [r0 EXCEPT !.pc = "disconnecting", !.dcl = client,
                    !.trace = Append(@, "disconnect")]
    ELSE Return(r0, r0.pending)

\* ---------------------------------------------------- submission engine
\* submitTransaction that looks at the signature before the seed
submitTransaction_try_SignatureFirst(r, reg) ==
  IF Truthy(r.signature)
    THEN [r EXCEPT !.pc = "submitting",
                   !.sent = [kind |-> "blob", txn |-> NoTxn, blob |-> r.signature,
                             wallet |-> Undef, autofill |-> FALSE],
                   !.trace = Append(@, "submit")]
  ELSE IF Truthy(r.seed) /\ r.txn # NoTxn
    THEN IF Wallet_fromSeed(r.seed) = "throws"
           THEN disconnectXrplClient([r EXCEPT !.pending = "walletError"], reg)
           ELSE [r EXCEPT !.pc = "submitting",
                          !.sent = [kind |-> "txn", txn |-> r.txn, blob |-> Undef,
                                    wallet |-> Wallet_fromSeed(r.seed),
                                    autofill |-> TRUE],
                          !.trace = Append(@, "submit")]
  ELSE disconnectXrplClient([r EXCEPT !.pending = "authError"], reg)

\* submitTransaction, the try block (transaction.ts 51-67) up to the awaited
\* submitAndWait, and the finally block (68-72) when the try block throws
\* before suspending (no usable credentials, or a seed no wallet derives from).
submitTransaction_try(r, reg) ==
  IF Truthy(r.seed) /\ r.txn # NoTxn
    THEN IF Wallet_fromSeed(r.seed) = "throws"
           THEN disconnectXrplClient([r EXCEPT !.pending = "walletError"], reg)
           ELSE [r EXCEPT !.pc = "submitting",
                          !.sent = [kind |-> "txn", txn |-> r.txn, blob |-> Undef,
                                    wallet |-> Wallet_fromSeed(r.seed),
                                    autofill |-> TRUE],
                          !.trace = Append(@, "submit")]
  ELSE IF Truthy(r.signature)
    THEN [r EXCEPT !.pc = "submitting",
                   !.sent = [kind |-> "blob", txn |-> NoTxn, blob |-> r.signature,
                             wallet |-> Undef, autofill |-> FALSE],
                   !.trace = Append(@, "submit")]
  ELSE disconnectXrplClient([r EXCEPT !.pending = "authError"], reg)

\* a descriptor handed to the engine by a direct caller
SampleTxn == [kind |-> "Payment", Account |-> "rA", currency |-> << >>,
              issuer |-> "", value |-> "1"]

\* credential combinations of direct engine calls in the concurrent
\* specification: seed with txn, signature alone, neither, both
EngineInputs ==
  { [seed |-> "s",   signature |-> Undef, txn |-> SampleTxn],
    [seed |-> Undef, signature |-> "s",   txn |-> NoTxn],
    [seed |-> Undef, signature |-> Undef, txn |-> NoTxn],
    [seed |-> "s",   signature |-> "s",   txn |-> SampleTxn] }

\* ------------------------------------------------------------- operations
\* a caller invokes getXrplClient(network) on its own (as isClientConnectedTool
\* and the read-only tools do)
Acquire(p, n) ==
  /\ proc[p].pc = "idle"
  /\ calls < MaxCalls
  /\ calls' = calls + 1
  /\ getXrplClient(p, [IdleProc EXCEPT !.op = "acquire", !.net = n])
  /\ UNCHANGED wf

\* a caller invokes disconnectXrplClient(network) on its own
Release(p, n) ==
  /\ proc[p].pc = "idle"
  /\ calls < MaxCalls
  /\ calls' = calls + 1
  /\ proc' = [proc EXCEPT ![p] = disconnectXrplClient(
                [IdleProc EXCEPT !.op = "release", !.net = n, !.pending = "ok"],
                clientInstances)]
  /\ lastAcquired' = [lastAcquired EXCEPT ![n] = None]
  /\ UNCHANGED <<regVars, lastReleased, wf>>

\* a caller invokes submitTransaction (transaction.ts 37-48): the engine
\* first awaits getXrplClient(network)
SubmitTransaction(p, n, i) ==
  /\ proc[p].pc = "idle"
  /\ calls < MaxCalls
  /\ calls' = calls + 1
  /\ getXrplClient(p, [IdleProc EXCEPT !.op = "submit", !.net = n,
                                       !.seed = i.seed,
                                       !.signature = i.signature,
                                       !.txn = i.txn])
  /\ UNCHANGED wf

\* getXrplClient that tries connect() once more when it is rejected
ConnectDone_Retry(p) ==
  /\ proc[p].pc = "connecting"
  /\ \E ok \in BOOLEAN :
       /\ conn[proc[p].client] = "open" => ok
       /\ conn[proc[p].client] = "closed" => ~ok
       /\ IF ok
            THEN /\ conn' = [conn EXCEPT ![proc[p].client] = "open"]
                 /\ proc' = [proc EXCEPT ![p].pc = "acquired"]
            ELSE IF Len(proc[p].trace) < 4
              THEN /\ conn' = [conn EXCEPT ![proc[p].client] = "connecting"]
                   /\ proc' = [proc EXCEPT ![p].trace = Append(@, "connect")]
              ELSE /\ conn' = [conn EXCEPT ![proc[p].client] = "closed"]
                   /\ proc' = [proc EXCEPT ![p] = Return(@, "connectError")]
  /\ UNCHANGED <<clientInstances, clientUrl, nextClient, calls,
                 lastAcquired, lastReleased, wf>>

\* the transport's connect() completes: the awaiting getXrplClient returns the
\* object (ok) or the rejection propagates to the caller (xrpl-client.ts 46, 63).
\* Transport: callers awaiting the same connection attempt share its outcome, and
\* an attempt whose object was disconnected meanwhile is rejected.
ConnectDone(p) ==
  /\ proc[p].pc = "connecting"
  /\ \E ok \in BOOLEAN :
       /\ conn[proc[p].client] = "open" => ok
       /\ conn[proc[p].client] = "closed" => ~ok
       /\ IF ok
            THEN /\ conn' = [conn EXCEPT ![proc[p].client] = "open"]
                 /\ proc' = [proc EXCEPT ![p].pc = "acquired"]
            ELSE /\ conn' = [conn EXCEPT ![proc[p].client] = "closed"]
                 /\ proc' = [proc EXCEPT ![p] = Return(@, "connectError")]
  /\ UNCHANGED <<clientInstances, clientUrl, nextClient, calls,
                 lastAcquired, lastReleased, wf>>

\* the caller resumes after `await getXrplClient(...)`
Resume(p) ==
  /\ proc[p].pc = "acquired"
  /\ proc[p].op \in {"acquire", "submit", "tool"}
  /\ LET r  == proc[p]
         r1 == IF r.op = "acquire" THEN Return(r, "ok")
               ELSE submitTransaction_try(r, clientInstances)
     IN /\ proc' = [proc EXCEPT ![p] = r1]
        /\ lastAcquired' = IF Has(r1.trace, "release")
                             THEN [lastAcquired EXCEPT ![r.net] = None]
                             ELSE lastAcquired
  /\ UNCHANGED <<regVars, calls, lastReleased, wf>>

\* submitTransaction with the cleanup after the submit instead of in a finally
\* block: a rejected submitAndWait propagates without the release
SubmitDone_NoFinally(p) ==
  /\ proc[p].pc = "submitting"
  /\ \E ok \in BOOLEAN :
       /\ ok => proc[p].client \in connected
       /\ proc' = [proc EXCEPT ![p] =
            IF ok THEN disconnectXrplClient([@ EXCEPT !.pending = "ok"], clientInstances)
                  ELSE Return(@, "submitError")]
       /\ lastAcquired' = IF ok THEN [lastAcquired EXCEPT ![proc[p].net] = None]
                                ELSE lastAcquired
  /\ UNCHANGED <<regVars, calls, lastReleased, wf>>

\* submitTransaction that submits once more when submitAndWait is rejected
SubmitDone_Retry(p) ==
  /\ proc[p].pc = "submitting"
  /\ \E ok \in BOOLEAN :
       /\ ok => proc[p].client \in connected
       /\ IF ~ok /\ Len(proc[p].trace) < 5
            THEN /\ proc' = [proc EXCEPT ![p].trace = Append(@, "submit")]
                 /\ UNCHANGED lastAcquired
            ELSE /\ proc' = [proc EXCEPT ![p] = disconnectXrplClient(
                         [@ EXCEPT !.pending = IF ok THEN "ok" ELSE "submitError"],
                         clientInstances)]
                 /\ lastAcquired' = [lastAcquired EXCEPT ![proc[p].net] = None]
  /\ UNCHANGED <<regVars, calls, lastReleased, wf>>

\* the transport's submitAndWait completes (transaction.ts 55, 64): the result
\* or the error is kept while the finally block runs disconnectXrplClient
SubmitDone(p) ==
  /\ proc[p].pc = "submitting"
  /\ \E ok \in BOOLEAN :
       /\ ok => proc[p].client \in connected
       /\ proc' = [proc EXCEPT ![p] = disconnectXrplClient(
                     [@ EXCEPT !.pending = IF ok THEN "ok" ELSE "submitError"],
                     clientInstances)]
  /\ lastAcquired' = [lastAcquired EXCEPT ![proc[p].net] = None]
  /\ UNCHANGED <<regVars, calls, lastReleased, wf>>

\* disconnectXrplClient without clientInstances.delete(network)
DisconnectDone_NoDelete(p) ==
  /\ proc[p].pc = "disconnecting"
  /\ LET n == proc[p].net IN
     /\ \E ok \in BOOLEAN :
          IF ok
            THEN /\ conn' = [conn EXCEPT ![proc[p].dcl] = "closed"]
                 /\ lastReleased' = [lastReleased EXCEPT ![n] =
                                       (@ \cup {proc[p].dcl, clientInstances[n]}) \ {None}]
                 /\ proc' = [proc EXCEPT ![p] = Return(@, @.pending)]
            ELSE /\ UNCHANGED <<conn, lastReleased>>
                 /\ proc' = [proc EXCEPT ![p] = Return(@, "disconnectError")]
     /\ lastAcquired' = [lastAcquired EXCEPT ![n] = None]
  /\ UNCHANGED <<clientInstances, clientUrl, nextClient, calls, wf>>

\* disconnectXrplClient that empties the whole registry (clientInstances.clear())
\* instead of deleting the entry of its network
DisconnectDone_ClearAll(p) ==
  /\ proc[p].pc = "disconnecting"
  /\ LET n == proc[p].net IN
     /\ \E ok \in BOOLEAN :
          IF ok
            THEN /\ conn' = [conn EXCEPT ![proc[p].dcl] = "closed"]
                 /\ clientInstances' = [e \in Networks |-> None]
                 /\ lastReleased' = [lastReleased EXCEPT ![n] =
                                       (@ \cup {proc[p].dcl, clientInstances[n]}) \ {None}]
                 /\ proc' = [proc EXCEPT ![p] = Return(@, @.pending)]
            ELSE /\ UNCHANGED <<conn, clientInstances, lastReleased>>
                 /\ proc' = [proc EXCEPT ![p] = Return(@, "disconnectError")]
     /\ lastAcquired' = [lastAcquired EXCEPT ![n] = None]
  /\ UNCHANGED <<clientUrl, nextClient, calls, wf>>

\* disconnectXrplClient that catches the error of client.disconnect() and
\* returns as if nothing had happened
DisconnectDone_SwallowError(p) ==
  /\ proc[p].pc = "disconnecting"
  /\ LET n == proc[p].net IN
     /\ \E ok \in BOOLEAN :
          IF ok
            THEN /\ conn' = [conn EXCEPT ![proc[p].dcl] = "closed"]
                 /\ clientInstances' = [clientInstances EXCEPT ![n] = None]
                 /\ lastReleased' = [lastReleased EXCEPT ![n] =
                                       (@ \cup {proc[p].dcl, clientInstances[n]}) \ {None}]
                 /\ proc' = [proc EXCEPT ![p] = Return(@, @.pending)]
            ELSE /\ UNCHANGED <<conn, clientInstances, lastReleased>>
                 /\ proc' = [proc EXCEPT ![p] = Return(@, @.pending)]
     /\ lastAcquired' = [lastAcquired EXCEPT ![n] = None]
  /\ UNCHANGED <<clientUrl, nextClient, calls, wf>>

\* the transport's disconnect() completes (xrpl-client.ts 78-85): on success
\* the entry of the network is deleted and the call returns what the try block
\* produced; a rejection propagates and the delete is not reached
DisconnectDone(p) ==
  /\ proc[p].pc = "disconnecting"
  /\ LET n == proc[p].net IN
     /\ \E ok \in BOOLEAN :
          IF ok
            THEN /\ conn' = [conn EXCEPT ![proc[p].dcl] = "closed"]
                 /\ clientInstances' = [clientInstances EXCEPT ![n] = None]
                 /\ lastReleased' = [lastReleased EXCEPT ![n] =
                                       (@ \cup {proc[p].dcl, clientInstances[n]}) \ {None}]
                 /\ proc' = [proc EXCEPT ![p] = Return(@, @.pending)]
            ELSE /\ UNCHANGED <<conn, clientInstances, lastReleased>>
                 /\ proc' = [proc EXCEPT ![p] = Return(@, "disconnectError")]
     /\ lastAcquired' = [lastAcquired EXCEPT ![n] = None]
  /\ UNCHANGED <<clientUrl, nextClient, calls, wf>>

Next ==
  \E p \in Procs :
    \/ \E n \in MainNetworks : Acquire(p, n)
    \/ \E n \in MainNetworks : Release(p, n)
    \/ \E n \in MainNetworks, i \in EngineInputs : SubmitTransaction(p, n, i)
    \/ ConnectDone(p)
    \/ Resume(p)
    \/ SubmitDone(p)
    \/ DisconnectDone(p)

Spec == Init /\ [][Next]_vars

\* ------------------------------------------------------- several endpoints
NextNetworks ==
  \E p \in Procs :
    \/ \E n \in Networks : Acquire(p, n)
    \/ \E n \in Networks : Release(p, n)
    \/ ConnectDone(p)
    \/ Resume(p)
    \/ DisconnectDone(p)

\* two tasks calling getXrplClient and disconnectXrplClient on two endpoints
SpecNetworks == Init /\ [][NextNetworks]_vars

\* ------------------------------------------------------ read-only queries
\* a read-only tool invokes executeMethod (methods.ts 22-30), which first
\* awaits getXrplClient(network)
ExecuteMethod(p, n) ==
  /\ proc[p].pc = "idle"
  /\ calls < MaxCalls
  /\ calls' = calls + 1
  /\ getXrplClient(p, [IdleProc EXCEPT !.op = "query", !.net = n])
  /\ UNCHANGED wf

\* the account_lines tool invokes getAccountLines (account-lines.ts 30-31),
\* which first awaits getXrplClient(network)
GetAccountLines(p, n) ==
  /\ proc[p].pc = "idle"
  /\ calls < MaxCalls
  /\ calls' = calls + 1
  /\ getXrplClient(p, [IdleProc EXCEPT !.op = "lines", !.net = n])
  /\ UNCHANGED wf

\* the query resumes after `await getXrplClient(...)` and awaits
\* client.request(...) (methods.ts 41, account-lines.ts 37-40)
Request(p) ==
  /\ proc[p].pc = "acquired"
  /\ proc[p].op \in {"query", "lines"}
  /\ proc' = [proc EXCEPT ![p].pc = "requesting", ![p].trace = Append(@, "request")]
  /\ UNCHANGED <<regVars, calls, lastAcquired, lastReleased, wf>>

\* the transport's request() completes.  A rejection propagates out of the
\* query at once: neither helper has a try block.  On success
\*   executeMethod (methods.ts 43-48)      awaits disconnectXrplClient(network)
\*   getAccountLines (account-lines.ts 42-45) awaits client.disconnect() on the
\*                                         object it was given
RequestDone(p) ==
  /\ proc[p].pc = "requesting"
  /\ \E ok \in BOOLEAN :
       /\ ok => proc[p].client \in connected
       /\ IF ~ok
            THEN /\ proc' = [proc EXCEPT ![p] = Return(@, "requestError")]
                 /\ UNCHANGED lastAcquired
          ELSE IF proc[p].op = "lines"
            THEN /\ proc' = [proc EXCEPT ![p].pc = "closing",
                                         ![p].dcl = proc[p].client,
                                         ![p].trace = Append(@, "disconnect")]
                 /\ UNCHANGED lastAcquired
          ELSE /\ proc' = [proc EXCEPT ![p] = disconnectXrplClient(
                                [@ EXCEPT !.pending = "ok"], clientInstances)]
               /\ lastAcquired' = [lastAcquired EXCEPT ![proc[p].net] = None]
  /\ UNCHANGED <<regVars, calls, lastReleased, wf>>

\* the disconnect() getAccountLines called on its object completes
\* (account-lines.ts 43-45): the transport is closed, the registry is not
\* touched, and the response is returned; a rejection propagates
CloseDone(p) ==
  /\ proc[p].pc = "closing"
  /\ \E ok \in BOOLEAN :
       IF ok
         THEN /\ conn' = [conn EXCEPT ![proc[p].dcl] = "closed"]
              /\ proc' = [proc EXCEPT ![p] = Return(@, "ok")]
         ELSE /\ UNCHANGED conn
              /\ proc' = [proc EXCEPT ![p] = Return(@, "disconnectError")]
  /\ UNCHANGED <<clientInstances, clientUrl, nextClient, calls,
                 lastAcquired, lastReleased, wf>>

NextQuery ==
  \E p \in Procs :
    \/ \E n \in MainNetworks : ExecuteMethod(p, n)
    \/ \E n \in MainNetworks : GetAccountLines(p, n)
    \/ ConnectDone(p)
    \/ Request(p)
    \/ RequestDone(p)
    \/ CloseDone(p)
    \/ DisconnectDone(p)

\* two tasks running read-only queries on one network
SpecQuery == Init /\ [][NextQuery]_vars

\* ------------------------------------------- transaction build & validate
\* characters of the currency codes in use, with their character codes
CharCode == [ch \in {"D", "K", "N", "O", "P", "R", "S", "T", "U", "X"} |->
               CASE ch = "D" -> 68 [] ch = "K" -> 75 [] ch = "N" -> 78
                 [] ch = "O" -> 79 [] ch = "P" -> 80 [] ch = "R" -> 82
                 [] ch = "S" -> 83 [] ch = "T" -> 84 [] ch = "U" -> 85
                 [] ch = "X" -> 88]

HexDigit == <<"0", "1", "2", "3", "4", "5", "6", "7", "8", "9",
              "A", "B", "C", "D", "E", "F">>

\* xrpl's convertStringToHex: two upper-case hex digits per character
RECURSIVE convertStringToHex(_)
convertStringToHex(str) ==
  IF str = << >> THEN << >>
  ELSE <<HexDigit[(CharCode[Head(str)] \div 16) + 1],
         HexDigit[(CharCode[Head(str)] % 16) + 1]>>
       \o convertStringToHex(Tail(str))

\* String.prototype.padEnd(n, ch)
padEnd(str, n, ch) ==
  str \o [i \in 1..(IF Len(str) < n THEN n - Len(str) ELSE 0) |-> ch]

\* currencyCodeToHex (helpers/currency.ts 5-11)
currencyCodeToHex(str) ==
  IF Len(str) = 3 \/ Len(str) = 40 THEN str
  ELSE padEnd(convertStringToHex(str), 40, "0")

XRP == <<"X", "R", "P">>
USD == <<"U", "S", "D">>
TOKN == <<"T", "O", "K", "N">>

\* raw tool inputs (the txn field of the tool's context)
Accounts == {"rA", "rB"}
RawTxns ==
  { [kind |-> "TrustSet", Account |-> "rA", currency |-> c, issuer |-> i, value |-> "100"] :
      c \in {XRP, USD, TOKN}, i \in Accounts }
  \cup { [kind |-> "OfferCancel", Account |-> "rA", currency |-> << >>,
          issuer |-> "", value |-> ""] }

\* an Amount of AMMCreate: a string of drops (str) or an issued-currency object
DropsAmount(v) == [str |-> TRUE, currency |-> << >>, issuer |-> "", value |-> v]
IssuedAmount(c, i, v) == [str |-> FALSE, currency |-> c, issuer |-> i, value |-> v]

\* AMMCreate's builder on one amount (amm-create.ts 66-77)
buildAmount(Amount) ==
  IF Amount.str THEN Amount
  ELSE [Amount EXCEPT !.currency = currencyCodeToHex(Amount.currency)]

\* config.buildTransaction per kind:
\*   TrustSet (trustset.types.ts 211-221) encodes LimitAmount.currency,
\*   AccountSet (account-set.ts 79-85) encodes a Domain that is given,
\*   AMMCreate (amm-create.ts 62-79) encodes the currency of each amount that
\*   is not a string,
\*   Clawback (clawback 134-136) and OfferCancel (offer-cancel.ts 17-19)
\*   return their input
buildTransaction(params) ==
  CASE params.kind = "TrustSet" ->
         [params EXCEPT !.currency = currencyCodeToHex(params.currency)]
    [] params.kind = "AccountSet" ->
         [params EXCEPT !.Domain = IF params.Domain # << >>
                                     THEN convertStringToHex(params.Domain)
                                     ELSE << >>]
    [] params.kind = "AMMCreate" ->
         [params EXCEPT !.Amount = buildAmount(params.Amount),
                        !.Amount2 = buildAmount(params.Amount2)]
    [] OTHER -> params

\* whether the kind's config has a validateTransaction
HasValidator(kind) == kind \in {"TrustSet", "AccountSet", "AMMCreate", "Clawback"}

\* an optional numeric field that was left out
NoNum == 0 - 1

\* String.prototype.toUpperCase on the letters in use
ToUpperChar(ch) ==
  CASE ch = "d" -> "D" [] ch = "p" -> "P" [] ch = "r" -> "R"
    [] ch = "s" -> "S" [] ch = "u" -> "U" [] ch = "x" -> "X"
    [] OTHER -> ch
toUpperCase(str) == [i \in 1..Len(str) |-> ToUpperChar(str[i])]

\* parseFloat(v) <= 0 on the amounts in use (NaN compares false)
ParseFloatNotPositive(v) == v \in {"0", "-1"}

\* the validators: "ok", or the reason they throw
\* TrustSet (trustset.types.ts 222-230)
validateTrustSet(txn) ==
  IF txn.currency = XRP THEN "XRP is not allowed for TrustSet"
  ELSE IF txn.issuer = txn.Account THEN "Cannot create trust line to yourself"
  ELSE "ok"

\* AccountSet (account-set.ts 86-99)
validateAccountSet(params) ==
  IF params.TransferRate # NoNum /\ params.TransferRate < 1000000000
    THEN "TransferRate must be greater than or equal to 1000000000"
  ELSE IF params.TransferRate # NoNum /\ params.TransferRate > 2000000000
    THEN "TransferRate must be less than or equal to 2000000000"
  ELSE IF params.TickSize # NoNum /\ params.TickSize < 3
    THEN "TickSize must be greater than or equal to 3"
  ELSE IF params.TickSize # NoNum /\ params.TickSize > 15
    THEN "TickSize must be less than or equal to 15"
  ELSE "ok"

\* AMMCreate (amm-create.ts 82-90); both amounts are there, the builder
\* having read their fields
validateAmmCreate(params) ==
  IF params.TradingFee < 0 \/ params.TradingFee > 1000
    THEN "TradingFee must be between 0 and 1000"
  ELSE "ok"

\* Clawback (clawback 137-149); Amount is a required field
validateClawback(params) ==
  IF ParseFloatNotPositive(params.value)
    THEN "Amount value must be greater than zero"
  ELSE IF toUpperCase(params.currency) = XRP
    THEN "Clawback cannot be used with XRP"
  ELSE IF params.issuer = params.Account
    THEN "Cannot claw back from yourself"
  ELSE "ok"

\* config.validateTransaction, per kind
validateTransaction(txn) ==
  CASE txn.kind = "TrustSet" -> validateTrustSet(txn)
    [] txn.kind = "AccountSet" -> validateAccountSet(txn)
    [] txn.kind = "AMMCreate" -> validateAmmCreate(txn)
    [] txn.kind = "Clawback" -> validateClawback(txn)
    [] OTHER -> "ok"

\* a validator that normalises the descriptor it checks: Clawback's writes
\* the upper-cased currency back
RunValidator_UpperCasing(txn) ==
  [verdict |-> validateTransaction(txn),
   txn |-> IF txn.kind = "Clawback"
             THEN [txn EXCEPT !.currency = toUpperCase(@)] ELSE txn]

\* one invocation of the kind's validator on a descriptor: what it returns or
\* throws, and the descriptor as the invocation leaves it.  The validators
\* only read their argument (no assignment in account-set.ts 86-99,
\* amm-create.ts 82-90, clawback 137-149, trustset.types.ts 222-230).
RunValidator(txn) == [verdict |-> validateTransaction(txn), txn |-> txn]

\* build first, validate what was built
BuildAndValidate_ValidateFirst(raw) ==
  LET verdict == IF HasValidator(raw.kind) THEN validateTransaction(raw) ELSE "ok" IN
  [builtTxn |-> buildTransaction(raw),
   verdict  |-> verdict,
   trace    |-> IF HasValidator(raw.kind) THEN <<"validate", "build">> ELSE <<"build">>]

\* the validator's rejection is dropped
BuildAndValidate_IgnoreVerdict(raw) ==
  [builtTxn |-> buildTransaction(raw),
   verdict  |-> "ok",
   trace    |-> IF HasValidator(raw.kind) THEN <<"build", "validate">> ELSE <<"build">>]

\* execute, the part common to both revisions of the factory
\* (transaction-factory.ts 50-52, factory revision with the complete schema
\* 59-64): build the descriptor, then run the optional validator on it
BuildAndValidate(raw) ==
  LET builtTxn == buildTransaction(raw) IN
  [builtTxn |-> builtTxn,
   verdict  |-> IF HasValidator(raw.kind) THEN validateTransaction(builtTxn) ELSE "ok",
   trace    |-> IF HasValidator(raw.kind) THEN <<"build", "validate">> ELSE <<"build">>]

\* the complete schema without its refinement
createCompleteTransactionSchema_NoRefine(context) == TRUE

\* createCompleteTransactionSchema's refinement: seed or signature is defined
createCompleteTransactionSchema(context) ==
  context.seed # Undef \/ context.signature # Undef

ToolContexts ==
  [seed : Seeds, signature : Creds, txn : RawTxns]

\* createTransactionTool(...).execute of the factory with the complete schema:
\* the host rejects an input that fails the schema; execute builds, validates
\* and hands txn: builtTxn together with the rest of the context to
\* submitTransaction
createTransactionTool_execute(p, n, context) ==
  /\ proc[p].pc = "idle"
  /\ calls < MaxCalls
  /\ calls' = calls + 1
  /\ UNCHANGED wf
  /\ LET r  == [IdleProc EXCEPT !.op = "tool", !.net = n,
                                !.factory = "complete", !.context = context]
         bv == BuildAndValidate(context.txn)
     IN
     IF ~createCompleteTransactionSchema(context)
       THEN /\ proc' = [proc EXCEPT ![p] = Return(r, "authError")]
            /\ UNCHANGED <<regVars, lastAcquired, lastReleased>>
     ELSE IF bv.verdict # "ok"
       THEN /\ proc' = [proc EXCEPT ![p] =
                 Return([r EXCEPT !.trace = bv.trace], "validationError")]
            /\ UNCHANGED <<regVars, lastAcquired, lastReleased>>
     ELSE getXrplClient(p, [r EXCEPT !.trace = bv.trace,
                                     !.txn = bv.builtTxn,
                                     !.seed = context.seed,
                                     !.signature = context.signature])

\* createTransactionTool(...).execute of transaction-factory.ts (45-74): build,
\* validate, then submit the signature alone if there is one, else the built
\* txn with the seed if there is one, else throw
createTransactionTool_execute_branching(p, n, context) ==
  /\ proc[p].pc = "idle"
  /\ calls < MaxCalls
  /\ calls' = calls + 1
  /\ UNCHANGED wf
  /\ LET r  == [IdleProc EXCEPT !.op = "tool", !.net = n,
                                !.factory = "branching", !.context = context]
         bv == BuildAndValidate(context.txn)
     IN
     IF bv.verdict # "ok"
       THEN /\ proc' = [proc EXCEPT ![p] =
                 Return([r EXCEPT !.trace = bv.trace], "validationError")]
            /\ UNCHANGED <<regVars, lastAcquired, lastReleased>>
     ELSE IF Truthy(context.signature)
       THEN getXrplClient(p, [r EXCEPT !.trace = bv.trace,
                                       !.signature = context.signature])
     ELSE IF Truthy(context.seed)
       THEN getXrplClient(p, [r EXCEPT !.trace = bv.trace,
                                       !.txn = bv.builtTxn,
                                       !.seed = context.seed])
     ELSE /\ proc' = [proc EXCEPT ![p] =
                 Return([r EXCEPT !.trace = bv.trace], "authError")]
          /\ UNCHANGED <<regVars, lastAcquired, lastReleased>>

\* every credential combination of a direct engine call
AllEngineInputs == [seed : Seeds, signature : Creds, txn : {NoTxn, SampleTxn}]

\* the task that invokes the tools in SpecTool
ToolProcs == {"t1"}

NextTool ==
  \E p \in ToolProcs :
    \/ \E n \in MainNetworks, c \in ToolContexts : createTransactionTool_execute(p, n, c)
    \/ \E n \in MainNetworks, c \in ToolContexts :
         createTransactionTool_execute_branching(p, n, c)
    \/ \E n \in MainNetworks, i \in AllEngineInputs : SubmitTransaction(p, n, i)
    \/ ConnectDone(p)
    \/ Resume(p)
    \/ SubmitDone(p)
    \/ DisconnectDone(p)

\* one task invoking transaction tools and the engine, one call after another
SpecTool == Init /\ [][NextTool]_vars

\* issuerSettings.domain (types.ts 33): a string that may be left out; the
\* code only tests its truthiness (102), which the empty string shares with
\* undefined
NoDomain == << >>
SampleDomain == <<"X", "R", "P", "D">>

\* ------------------------------------------------- builders and validators
MaxCodeLen == 41               \* longest currency code handed to a builder
MaxValidations == 2            \* validator invocations on one built descriptor

\* the string of n characters ch
Rep(ch, n) == [i \in 1..n |-> ch]

\* currency codes as a caller may write them (z.string(), no length limit):
\* the codes of 3 characters, shorter and longer ones, around 20 characters
\* (whose hex has 40 digits) and around 40
CurrencyCodes ==
  {XRP, USD, TOKN}
  \cup {Rep(ch, n) : ch \in {"D", "X"}, n \in {1, 2, 3, 4, 19, 20, 21, 40, MaxCodeLen}}

\* descriptors as they are handed to the builders of four kinds
TrustSetInputs ==
  { [kind |-> "TrustSet", Account |-> "rA", currency |-> c, issuer |-> i, value |-> "100"] :
      c \in CurrencyCodes, i \in Accounts }
AccountSetInputs ==
  [kind : {"AccountSet"}, Account : {"rA"}, Domain : {NoDomain, SampleDomain},
   TransferRate : {NoNum, 999999999, 1000000000, 2000000000, 2000000001},
   TickSize : {NoNum, 2, 3, 15, 16}]
AmmCreateInputs ==
  [kind : {"AMMCreate"}, Account : {"rA"},
   Amount : {DropsAmount("1000"), IssuedAmount(USD, "rB", "5"), IssuedAmount(TOKN, "rB", "5")},
   Amount2 : {IssuedAmount(TOKN, "rA", "7"), IssuedAmount(Rep("D", 40), "rA", "7")},
   TradingFee : {-1, 0, 500, 1000, 1001}]
ClawbackInputs ==
  [kind : {"Clawback"}, Account : {"rA"},
   currency : {XRP, <<"x", "r", "p">>, USD, <<"u", "s", "d">>},
   issuer : Accounts, value : {"314.159", "0", "-1", "abc"}]
BuildInputs == TrustSetInputs \cup AccountSetInputs \cup AmmCreateInputs \cup ClawbackInputs

\* a tool's execute is about to run on a descriptor
InitBuild ==
  /\ clientInstances = [n \in Networks |-> None]
  /\ conn = [c \in ClientIds |-> "closed"]
  /\ clientUrl = [c \in ClientIds |-> None]
  /\ nextClient = 1
  /\ \E raw \in BuildInputs :
       proc = [p \in Tasks |-> IF p \in ToolProcs
                                 THEN [IdleProc EXCEPT !.context.txn = raw]
                                 ELSE IdleProc]
  /\ wf = NoWorkflow
  /\ calls = 0
  /\ lastAcquired = [n \in Networks |-> None]
  /\ lastReleased = [n \in Networks |-> {}]

\* config.buildTransaction(txn) is applied to the tool's input
\* (transaction-factory.ts 50)
Build(p) ==
  /\ proc[p].op = "none"
  /\ proc' = [proc EXCEPT ![p].op = "build",
                          ![p].txn = buildTransaction(proc[p].context.txn),
                          ![p].trace = <<"build">>]
  /\ UNCHANGED <<regVars, calls, lastAcquired, lastReleased, wf>>

\* config.validateTransaction is invoked on the built descriptor, as the
\* factory does once (transaction-factory.ts 51-52); a descriptor that was
\* accepted may be handed to the validator again
Validate(p) ==
  /\ proc[p].op = "build"
  /\ HasValidator(proc[p].txn.kind)
  /\ Count(proc[p].trace, "validate") < MaxValidations
  /\ proc[p].result \in {"none", "ok"}
  /\ LET v == RunValidator(proc[p].txn) IN
     proc' = [proc EXCEPT ![p].txn = v.txn,
                          ![p].result = v.verdict,
                          ![p].trace = Append(@, "validate")]
  /\ UNCHANGED <<regVars, calls, lastAcquired, lastReleased, wf>>

NextBuild == \E p \in ToolProcs : Build(p) \/ Validate(p)

\* builders and validators applied to descriptors of four kinds
SpecBuild == InitBuild /\ [][NextBuild]_vars

\* ------------------------------------------------ token issuance workflow
MaxHolders == 3                \* largest holder count of a workflow run

WfNetwork == "wss://a"

\* AccountSetAsfFlagsMap (token-issuance-workflow.types.ts 4-21), the flags in use
AccountSetAsfFlagsMap ==
  [f \in {"asfRequireAuth", "asfDefaultRipple"} |->
     IF f = "asfRequireAuth" THEN 2 ELSE 8]

\* AccountSetAsfFlagsMap[flag] (workflow.ts 98): undefined, here 0, for a name
\* that is no key of the map
FlagValue(f) ==
  IF f \in DOMAIN AccountSetAsfFlagsMap THEN AccountSetAsfFlagsMap[f] ELSE 0

\* the i-th flag is one the loop throws `Invalid flag` on (workflow.ts 100-102)
InvalidFlagAt(w, i) == i <= Len(w.flags) /\ FlagValue(w.flags[i]) = 0

\* the declared inputs of a run (tokenIssuanceWorkflowSchema, types.ts 47-53)
WorkflowInputs ==
  [holders : 0..MaxHolders,
   hasFlags : BOOLEAN,
   flags : {<< >>, <<"asfDefaultRipple">>, <<"asfRequireAuth", "asfDefaultRipple">>,
            <<"asfBogus">>, <<"asfRequireAuth", "asfBogus", "asfDefaultRipple">>},
   domain : {NoDomain, SampleDomain},
   currency : {USD, TOKN},
   mintAmount : {"10"}]

\* Promise.all over a batch that settles as soon as one member is fulfilled
PromiseAll_FirstFulfilled(batch) ==
  IF \E i \in 1..Len(batch) : batch[i].st = "failed" THEN "rejected"
  ELSE IF batch = << >> \/ \E i \in 1..Len(batch) : batch[i].st = "ok" THEN "fulfilled"
  ELSE "pending"

\* Promise.allSettled in the place of Promise.all: the batch settles only
\* when no member is in flight any more
PromiseAll_AllSettled(batch) ==
  IF \E i \in 1..Len(batch) : batch[i].st = "inflight" THEN "pending"
  ELSE IF \E i \in 1..Len(batch) : batch[i].st = "failed" THEN "rejected"
  ELSE "fulfilled"

\* Promise.all over the sub-operations of a batch (workflow.ts 46, 179):
\* rejected as soon as one member fails, fulfilled when all are fulfilled
PromiseAll(batch) ==
  IF \E i \in 1..Len(batch) : batch[i].st = "failed" THEN "rejected"
  ELSE IF \A i \in 1..Len(batch) : batch[i].st = "ok" THEN "fulfilled"
  ELSE "pending"

NoTx == [type |-> "none", Account |-> None, Destination |-> None,
         currency |-> << >>, issuer |-> None, value |-> "",
         SetFlag |-> 0, Domain |-> << >>, wallet |-> None]

\* a sub-operation issued by a stage: a fundWallet or a submitAndWait
\* (rank: for a TrustSet of createTrustLines, its place in the order in which
\* the submissions of the batch completed; 0 while it is in flight)
SubOp(tx, client) ==
  [st |-> "inflight", tx |-> tx, client |-> client, wallet |-> None, rank |-> 0]

\* one entry of the result log (TxnResult, types.ts 61-66)
TxnResult(stage, i, what) ==
  [description |-> what, hash |-> <<stage, i>>, status |-> "tesSUCCESS"]

\* the message each stage's catch block puts in front of the error it rethrows
\* (workflow.ts 55, 131, 201, 265)
StageErrorMessage ==
  <<"Failed to create wallets", "Failed to setup issuer account",
    "Failed to create trust lines", "Failed to mint tokens">>

\* the error is dropped and the stage returns as if nothing had failed
StageThrows_Swallowed(w) == w

\* a stage that throws hands the results it had collected to its caller
StageThrows_PartialResults(w) ==
  [w EXCEPT !.status = "failed", !.failedStage = w.stage,
            !.error = StageErrorMessage[w.stage],
            !.txnResults =
              [i \in 1..Cardinality({j \in 1..Len(w.ops[w.stage]) :
                                       w.ops[w.stage][j].st = "ok"}) |->
                 TxnResult(w.stage, i, <<"partial">>)]]

\* the stage's catch block rethrows: the workflow ends without a later stage
StageThrows(w) ==
  [w EXCEPT !.status = "failed", !.failedStage = w.stage,
            !.error = StageErrorMessage[w.stage]]

\* setupIssuerAccount, one turn of its loop (workflow.ts 97-111): the
\* AccountSet for the i-th flag, signed by the issuer
AccountSetTx(w, i) ==
  [NoTx EXCEPT !.type = "AccountSet", !.Account = w.issuer,
               !.Domain = IF w.domain # << >> THEN convertStringToHex(w.domain)
                         ELSE << >>,
               !.SetFlag = FlagValue(w.flags[i]),
               !.wallet = w.issuer]

\* createTrustLines, the TrustSet of the i-th holder (workflow.ts 166-176)
TrustSetTx(w, i) ==
  [NoTx EXCEPT !.type = "TrustSet", !.Account = w.holders[i],
               !.currency = currencyCodeToHex(w.currency),
               !.issuer = w.issuer, !.value = "limit",
               !.wallet = w.holders[i]]

\* mintTokens, the Payment to the i-th holder (workflow.ts 233-244)
PaymentTx(w, i) ==
  [NoTx EXCEPT !.type = "Payment", !.Account = w.issuer,
               !.Destination = w.holders[i],
               !.currency = w.currency, !.value = w.mintAmount,
               !.issuer = w.issuer, !.wallet = w.issuer]

\* the workflow is invoked (workflow.ts 282-328): createWallets starts and
\* awaits getXrplClient(network) (26-34)
tokenIssuanceWorkflow(input) ==
  /\ wf.status = "idle"
  /\ calls < MaxCalls
  /\ calls' = calls + 1
  /\ wf' = [NoWorkflow EXCEPT !.status = "running", !.stage = 1,
                              !.holdersCount = input.holders,
                              !.hasFlags = input.hasFlags,
                              !.flags = IF input.hasFlags THEN input.flags ELSE << >>,
                              !.domain = input.domain,
                              !.currency = input.currency,
                              !.mintAmount = input.mintAmount]
  /\ getXrplClient(Wf, [IdleProc EXCEPT !.op = "workflow", !.net = WfNetwork])

\* createWallets funds the issuer's wallet and only then starts on the holders'
StageIssue_FundIssuerFirst ==
  /\ proc[Wf].pc = "acquired" /\ proc[Wf].op = "workflow"
  /\ wf.status = "running"
  /\ LET c == proc[Wf].client
         k == wf.stage
         batch ==
           CASE k = 1 -> <<SubOp([NoTx EXCEPT !.type = "fundWallet"], c)>>
             [] k = 2 -> <<SubOp(AccountSetTx(wf, 1), c)>>
             [] k = 3 -> [i \in 1..Len(wf.holders) |-> SubOp(TrustSetTx(wf, i), c)]
             [] k = 4 -> IF wf.holders = << >> THEN << >>
                         ELSE <<SubOp(PaymentTx(wf, 1), c)>>
     IN /\ wf' = [wf EXCEPT !.ops[k] = batch]
        /\ proc' = [proc EXCEPT ![Wf].pc = IF batch = << >> THEN "settled" ELSE "awaiting"]
  /\ UNCHANGED <<regVars, calls, lastAcquired, lastReleased>>

\* setupIssuerAccount maps its flags to submissions and awaits them together,
\* the way createTrustLines does with its holders
StageIssue_AllFlagsAtOnce ==
  /\ proc[Wf].pc = "acquired" /\ proc[Wf].op = "workflow"
  /\ wf.status = "running"
  /\ LET c == proc[Wf].client
         k == wf.stage
         batch ==
           CASE k = 1 -> [i \in 1..(wf.holdersCount + 1) |->
                            SubOp([NoTx EXCEPT !.type = "fundWallet"], c)]
             [] k = 2 -> [i \in 1..Len(wf.flags) |-> SubOp(AccountSetTx(wf, i), c)]
             [] k = 3 -> [i \in 1..Len(wf.holders) |-> SubOp(TrustSetTx(wf, i), c)]
             [] k = 4 -> IF wf.holders = << >> THEN << >>
                         ELSE <<SubOp(PaymentTx(wf, 1), c)>>
     IN /\ wf' = [wf EXCEPT !.ops[k] = batch]
        /\ proc' = [proc EXCEPT ![Wf].pc = IF batch = << >> THEN "settled" ELSE "awaiting"]
  /\ UNCHANGED <<regVars, calls, lastAcquired, lastReleased>>

\* a stage resumes after `await getXrplClient(...)` and issues its first
\* sub-operations:
\*   createWallets (37-46)      all N+1 fundWallet requests, then Promise.all
\*   setupIssuerAccount (94-111) the AccountSet of the first flag, unless the
\*                              flag is invalid: then the stage throws
\*   createTrustLines (162-179) all N TrustSet submissions, then Promise.all
\*   mintTokens (229-244)       the Payment to the first holder
StageIssue ==
  /\ proc[Wf].pc = "acquired" /\ proc[Wf].op = "workflow"
  /\ wf.status = "running"
  /\ LET c == proc[Wf].client
         k == wf.stage
         batch ==
           CASE k = 1 -> [i \in 1..(wf.holdersCount + 1) |->
                            SubOp([NoTx EXCEPT !.type = "fundWallet"], c)]
             [] k = 2 -> IF InvalidFlagAt(wf, 1) THEN << >>
                         ELSE <<SubOp(AccountSetTx(wf, 1), c)>>
             [] k = 3 -> [i \in 1..Len(wf.holders) |-> SubOp(TrustSetTx(wf, i), c)]
             [] k = 4 -> IF wf.holders = << >> THEN << >>
                         ELSE <<SubOp(PaymentTx(wf, 1), c)>>
     IN IF k = 2 /\ InvalidFlagAt(wf, 1)
          THEN /\ wf' = StageThrows(wf)
               /\ proc' = [proc EXCEPT ![Wf] = Return(@, "stageError")]
          ELSE /\ wf' = [wf EXCEPT !.ops[k] = batch]
               /\ proc' = [proc EXCEPT ![Wf].pc =
                            IF batch = << >> THEN "settled" ELSE "awaiting"]
  /\ UNCHANGED <<regVars, calls, lastAcquired, lastReleased>>

\* every stage appends its results to the log it was given
StageReturns_Appending(w) ==
  LET k == w.stage
      b == w.ops[k]
  IN CASE k = 1 -> [w EXCEPT !.issuer = b[1].wallet,
                             !.holders = [i \in 1..(Len(b) - 1) |-> b[i + 1].wallet]]
       [] k = 2 -> [w EXCEPT !.txnResults = @ \o
                      [i \in 1..Len(b) |-> TxnResult(2, i, <<"Set flag", w.flags[i]>>)]]
       [] k = 3 -> [w EXCEPT !.currency = currencyCodeToHex(w.currency),
                             !.txnResults = @ \o
                      [i \in 1..Len(b) |->
                         TxnResult(3, i, <<"Created trust line for", b[i].tx.issuer>>)]]
       [] k = 4 -> [w EXCEPT !.txnResults = @ \o
                      [i \in 1..Len(b) |->
                         TxnResult(4, i, <<"Minted", w.mintAmount, w.currency,
                                           w.holders[i]>>)]]

\* createTrustLines records its results as the submissions complete
StageReturns_CompletionOrder(w) ==
  LET k == w.stage
      b == w.ops[k]
      nth(r) == CHOOSE i \in 1..Len(b) : b[i].rank = r
  IN CASE k = 1 -> [w EXCEPT !.issuer = b[1].wallet,
                             !.holders = [i \in 1..(Len(b) - 1) |-> b[i + 1].wallet]]
       [] k = 2 -> [w EXCEPT !.txnResults =
                      [i \in 1..Len(b) |-> TxnResult(2, i, <<"Set flag", w.flags[i]>>)]]
       [] k = 3 -> [w EXCEPT !.currency = currencyCodeToHex(w.currency),
                             !.txnResults =
                      [r \in 1..Len(b) |->
                         TxnResult(3, nth(r),
                                   <<"Created trust line for", b[nth(r)].tx.issuer>>)]]
       [] k = 4 -> [w EXCEPT !.txnResults =
                      [i \in 1..Len(b) |->
                         TxnResult(4, i, <<"Minted", w.mintAmount, w.currency,
                                           w.holders[i]>>)]]

\* the context a stage returns when all its sub-operations are fulfilled:
\*   createWallets (46-53)       issuer and holders from the funded wallets
\*   setupIssuerAccount (123-129), createTrustLines (182-199), mintTokens
\*   (255-263)                   txnResults: the results of this stage
StageReturns(w) ==
  LET k == w.stage
      b == w.ops[k]
  IN CASE k = 1 -> [w EXCEPT !.issuer = b[1].wallet,
                             !.holders = [i \in 1..(Len(b) - 1) |-> b[i + 1].wallet]]
       [] k = 2 -> [w EXCEPT !.txnResults =
                      [i \in 1..Len(b) |-> TxnResult(2, i, <<"Set flag", w.flags[i]>>)]]
       [] k = 3 -> [w EXCEPT !.currency = currencyCodeToHex(w.currency),
                             !.txnResults =
                      [i \in 1..Len(b) |->
                         TxnResult(3, i, <<"Created trust line for", b[i].tx.issuer>>)]]
       [] k = 4 -> [w EXCEPT !.txnResults =
                      [i \in 1..Len(b) |->
                         TxnResult(4, i, <<"Minted", w.mintAmount, w.currency,
                                           w.holders[i]>>)]]

\* mintTokens pays the first holder and, once that has gone through, all the
\* other holders at once
NextInLoop_PayAllRemaining(w, i, c) ==
  CASE w.stage = 2 /\ i < Len(w.flags) -> <<SubOp(AccountSetTx(w, i + 1), c)>>
    [] w.stage = 4 /\ i = 1 ->
         [j \in 1..(Len(w.holders) - 1) |-> SubOp(PaymentTx(w, j + 1), c)]
    [] OTHER -> << >>

\* the next sub-operation of a sequential stage, after its i-th was fulfilled:
\* the next flag (97) or the next holder (232), if there is one
NextInLoop(w, i, c) ==
  CASE w.stage = 2 /\ i < Len(w.flags) /\ ~InvalidFlagAt(w, i + 1) ->
         <<SubOp(AccountSetTx(w, i + 1), c)>>
    [] w.stage = 4 /\ i < Len(w.holders) -> <<SubOp(PaymentTx(w, i + 1), c)>>
    [] OTHER -> << >>

\* a sub-operation in flight completes.  fundWallet yields a newly funded
\* wallet; submitAndWait needs its connection to be open.  The stage that
\* awaits it continues: a rejection is caught and rethrown (54-56, 130-132,
\* 200-202, 264-266); a sequential stage submits its next transaction; the
\* stage returns once Promise.all is fulfilled or the loop is over; the loop
\* of setupIssuerAccount throws when its next flag is invalid (100-102).  A
\* sub-operation of a stage that already threw completes unobserved.
SubOpDone(k, i, ok) ==
  /\ i \in 1..Len(wf.ops[k])
  /\ wf.ops[k][i].st = "inflight"
  /\ (ok /\ k # 1) => conn[wf.ops[k][i].client] = "open"
  /\ LET w1 == [wf EXCEPT !.ops[k][i].st = IF ok THEN "ok" ELSE "failed",
                          !.ops[k][i].wallet = IF ok /\ k = 1 THEN i ELSE None,
                          !.ops[k][i].rank =
                            IF k = 3
                              THEN 1 + Cardinality({j \in 1..Len(wf.ops[k]) :
                                                      wf.ops[k][j].st # "inflight"})
                              ELSE 0,
                          !.nextWallet = IF ok /\ k = 1 THEN @ + 1 ELSE @]
         awaited == wf.status = "running" /\ wf.stage = k /\ proc[Wf].pc = "awaiting"
         more == IF ok /\ awaited THEN NextInLoop(w1, i, wf.ops[k][i].client) ELSE << >>
         w2 == [w1 EXCEPT !.ops[k] = @ \o more]
         threw == ok /\ awaited /\ k = 2 /\ InvalidFlagAt(w1, i + 1)
         settled == PromiseAll(w2.ops[k])
     IN IF ~awaited \/ settled = "pending"
          THEN /\ wf' = w2
               /\ UNCHANGED proc
        ELSE IF settled = "rejected" \/ threw
          THEN /\ wf' = StageThrows(w2)
               /\ proc' = [proc EXCEPT ![Wf] = Return(@, "stageError")]
        ELSE /\ wf' = w2
             /\ proc' = [proc EXCEPT ![Wf].pc = "settled"]
  /\ UNCHANGED <<regVars, calls, lastAcquired, lastReleased>>

\* getXrplClient threw inside a stage's try block: the catch block rethrows
StageCatch ==
  /\ wf.status = "running"
  /\ proc[Wf].pc = "idle" /\ proc[Wf].result = "connectError"
  /\ wf' = StageThrows(wf)
  /\ proc' = [proc EXCEPT ![Wf].result = "stageError"]
  /\ UNCHANGED <<regVars, calls, lastAcquired, lastReleased>>

\* the workflow engine with a cleanup at the end of the run: after mintTokens
\* the connection of the network is released
StageAdvance_Releasing ==
  /\ wf.status = "running"
  /\ proc[Wf].pc = "settled"
  /\ UNCHANGED calls
  /\ LET w == StageReturns(wf) IN
     IF wf.stage = 4
       THEN /\ wf' = [w EXCEPT !.status = "done"]
            /\ proc' = [proc EXCEPT ![Wf] =
                 disconnectXrplClient([@ EXCEPT !.pending = "ok"], clientInstances)]
            /\ UNCHANGED <<regVars, lastAcquired, lastReleased>>
     ELSE IF wf.stage = 1 /\ (~w.hasFlags \/ Len(w.flags) = 0)
       THEN /\ wf' = [w EXCEPT !.stage = 2, !.txnResults = << >>]
            /\ UNCHANGED <<proc, regVars, lastAcquired, lastReleased>>
     ELSE /\ wf' = [w EXCEPT !.stage = @ + 1]
          /\ getXrplClient(Wf, proc[Wf])

\* setupIssuerAccount whose early return leaves out `...rest`: without flags
\* the holders are not handed on
StageAdvance_EarlyReturnDropsRest ==
  /\ wf.status = "running"
  /\ proc[Wf].pc = "settled"
  /\ UNCHANGED calls
  /\ LET w == StageReturns(wf) IN
     IF wf.stage = 4
       THEN /\ wf' = [w EXCEPT !.status = "done"]
            /\ proc' = [proc EXCEPT ![Wf] = Return(@, "ok")]
            /\ UNCHANGED <<regVars, lastAcquired, lastReleased>>
     ELSE IF wf.stage = 1 /\ (~w.hasFlags \/ Len(w.flags) = 0)
       THEN /\ wf' = [w EXCEPT !.stage = 2, !.txnResults = << >>, !.holders = << >>]
            /\ UNCHANGED <<proc, regVars, lastAcquired, lastReleased>>
     ELSE /\ wf' = [w EXCEPT !.stage = @ + 1]
          /\ getXrplClient(Wf, proc[Wf])

\* the workflow engine's .then chain (325-328): the stage returned its
\* context, the next stage runs on it, and the run is done after mintTokens.
\* setupIssuerAccount returns at once when there are no flags (82-90); every
\* other stage first awaits getXrplClient(network) (93, 161, 228).
StageAdvance ==
  /\ wf.status = "running"
  /\ proc[Wf].pc = "settled"
  /\ UNCHANGED calls
  /\ LET w == StageReturns(wf) IN
     IF wf.stage = 4
       THEN /\ wf' = [w EXCEPT !.status = "done"]
            /\ proc' = [proc EXCEPT ![Wf] = Return(@, "ok")]
            /\ UNCHANGED <<regVars, lastAcquired, lastReleased>>
     ELSE IF wf.stage = 1 /\ (~w.hasFlags \/ Len(w.flags) = 0)
       THEN /\ wf' = [w EXCEPT !.stage = 2, !.txnResults = << >>]
            /\ UNCHANGED <<proc, regVars, lastAcquired, lastReleased>>
     ELSE /\ wf' = [w EXCEPT !.stage = @ + 1]
          /\ getXrplClient(Wf, proc[Wf])

NextWorkflow ==
  \/ \E input \in WorkflowInputs : tokenIssuanceWorkflow(input)
  \/ ConnectDone(Wf)
  \/ StageIssue
  \/ \E k \in 1..4, i \in 1..(MaxHolders + 1), ok \in BOOLEAN : SubOpDone(k, i, ok)
  \/ StageCatch
  \/ StageAdvance

\* one run of the token issuance workflow
SpecWorkflow == Init /\ [][NextWorkflow]_vars

\* ------------------------------------------------------------------ claims
\* client objects constructed for network n whose transport is connected
Live(n) == {c \in connected : clientUrl[c] = n}

\* p's submitTransaction call, having acquired its connection, returns or
\* rethrows in this step
SubmitExits(p) ==
  /\ proc[p].op \in {"submit", "tool"}
  /\ proc[p].pc \in {"acquired", "submitting", "disconnecting"}
  /\ proc'[p].pc = "idle"

\* C1 as stated: every submitTransaction call that acquired its connection has
\* invoked disconnectXrplClient(network) when it returns or rethrows, and the
\* registry then holds no entry for the network, whatever the exit path.
C1_ReleasedNoEntry ==
  [][\A p \in Procs :
       SubmitExits(p) =>
         /\ Has(proc'[p].trace, "release")
         /\ clientInstances'[proc[p].net] = None]_vars

\* C1 amended: every submitTransaction call that acquired its connection has
\* invoked disconnectXrplClient(network) when it returns or rethrows (submit
\* succeeded, submit threw, or no usable credentials), and the registry then
\* holds no entry for the network unless the transport's disconnect itself
\* threw during that release.
C1_Released ==
  [][\A p \in Procs :
       SubmitExits(p) =>
         /\ Has(proc'[p].trace, "release")
         /\ (proc'[p].result # "disconnectError" =>
               clientInstances'[proc[p].net] = None)]_vars

\* a submission threw a submit error, released, and left no entry
C1_Witness ==
  \E p \in Procs :
    /\ Finished(p) /\ proc[p].op = "submit"
    /\ proc[p].result = "submitError"
    /\ Has(proc[p].trace, "disconnect")
    /\ clientInstances[proc[p].net] = None

\* p invokes getXrplClient(n) in this step
GetInvoked(p, n) ==
  /\ proc[p].pc \notin {"connecting", "acquired"}
  /\ proc'[p].pc \in {"connecting", "acquired"}
  /\ proc'[p].net = n

\* C2: a getXrplClient(e) call that follows another one with no
\* disconnectXrplClient(e) activity in between obtains the same object, without
\* constructing one, and meanwhile the registry holds exactly that object.
C2_SameInstance ==
  /\ [](\A n \in Networks :
          lastAcquired[n] # None => clientInstances[n] = lastAcquired[n])
  /\ [][\A n \in Networks : \A p \in Tasks :
          (GetInvoked(p, n) /\ lastAcquired[n] # None) =>
             /\ proc'[p].client = lastAcquired[n]
             /\ lastAcquired'[n] = lastAcquired[n]
             /\ nextClient' = nextClient]_vars

\* two callers hold the same object obtained by consecutive acquires
C2_Witness ==
  \E p, q \in Procs :
    /\ p # q
    /\ proc[p].pc \in {"acquired", "submitting"}
    /\ proc[q].pc \in {"acquired", "submitting"}
    /\ proc[p].net = proc[q].net
    /\ proc[p].client = proc[q].client
    /\ lastAcquired[proc[p].net] = proc[p].client

\* C3: the first getXrplClient(e) after a completed disconnectXrplClient(e)
\* constructs a new object, which is none of the objects that release
\* un-cached, and caches it.
C3_NewAfterRelease ==
  [][\A n \in Networks :
       (lastReleased[n] # {} /\ lastReleased'[n] = {}) =>
          /\ nextClient' = nextClient + 1
          /\ clientInstances'[n] = nextClient
          /\ nextClient \notin lastReleased[n]]_vars

\* an object constructed for n was released and a later one is cached for n
C3_Witness ==
  \E n \in Networks :
    /\ clientInstances[n] # None /\ clientInstances[n] >= 2
    /\ clientUrl[1] = n /\ 1 \notin connected
    /\ lastReleased[n] = {}

\* C4: at most one connection object per endpoint is live at any time.
C4_AtMostOneLive ==
  \A n \in Networks : Cardinality(Live(n)) <= 1

\* registry and transport calls, as recorded in a call's trace
NetEvents == {"acquire", "connect", "submit", "release", "disconnect"}
Touches(t) == \E i \in 1..Len(t) : t[i] \in NetEvents

\* the credentials a call was given: a tool's context, the engine's arguments
CallSeed(r) == IF r.op = "tool" THEN r.context.seed ELSE r.seed
CallSignature(r) == IF r.op = "tool" THEN r.context.signature ELSE r.signature
IsCall(r) == r.op \in {"tool", "submit"}
NoCredentials(r) == IsCall(r) /\ CallSeed(r) = Undef /\ CallSignature(r) = Undef

C6_BothIsError ==
  \A p \in Procs :
    (IsCall(proc[p]) /\ Truthy(CallSeed(proc[p])) /\ Truthy(CallSignature(proc[p]))) =>
      /\ ~Has(proc[p].trace, "submit")
      /\ Finished(p) => proc[p].result # "ok"

\* C7: a tool invoked with a signature invokes neither the builder nor the
\* validator, and what it submits is the blob, unchanged.
C7_SignatureSkipsBuild ==
  \A p \in Procs :
    (proc[p].op = "tool" /\ Truthy(proc[p].context.signature)) =>
      /\ ~Has(proc[p].trace, "build")
      /\ ~Has(proc[p].trace, "validate")
      /\ proc[p].sent.kind # "none" =>
           /\ proc[p].sent.kind = "blob"
           /\ proc[p].sent.blob = proc[p].context.signature

\* execute ran on the tool's input (the host did not reject it)
ExecuteRan(r) ==
  /\ r.op = "tool"
  /\ r.factory = "complete" => (r.context.seed # Undef \/ r.context.signature # Undef)

\* the kind has a validator and it rejects the descriptor built from the input
ValidatorRejects(r) ==
  /\ HasValidator(r.context.txn.kind)
  /\ LET b == IF r.context.txn.kind = "TrustSet"
                THEN [r.context.txn EXCEPT !.currency = currencyCodeToHex(@)]
                ELSE r.context.txn
     IN b.currency = XRP \/ b.issuer = b.Account

\* C8: when the validator rejects the built descriptor the invocation ends
\* with the validator's error and the engine is never invoked: no acquire, no
\* connect, no submit.
C8_RejectedNeverSubmits ==
  \A p \in Procs :
    (ExecuteRan(proc[p]) /\ ValidatorRejects(proc[p])) =>
      /\ Finished(p)
      /\ proc[p].result = "validationError"
      /\ ~Touches(proc[p].trace)
      /\ proc[p].sent = NoSent

\* a self-referential trust line was rejected by the validator
C8_Witness ==
  \E p \in Procs :
    /\ Finished(p) /\ proc[p].op = "tool"
    /\ proc[p].result = "validationError"
    /\ proc[p].context.txn.kind = "TrustSet"
    /\ proc[p].context.txn.issuer = proc[p].context.txn.Account
    /\ proc[p].context.txn.currency = TOKN
    /\ Truthy(proc[p].context.seed)
    /\ proc[p].trace = <<"build", "validate">>

\* C9: in every tool invocation whose execute runs, the builder is invoked
\* exactly once and first, the validator (if the kind has one) once and right
\* after it, and every registry or transport call comes after both.
C9_BuildValidateSubmit ==
  \A p \in Procs :
    ExecuteRan(proc[p]) =>
      LET t == proc[p].trace
          v == HasValidator(proc[p].context.txn.kind)
      IN /\ Count(t, "build") = 1 /\ t[1] = "build"
         /\ Count(t, "validate") = (IF v THEN 1 ELSE 0)
         /\ v => t[2] = "validate"
         /\ \A i \in 1..Len(t) : t[i] \in NetEvents => i > (IF v THEN 2 ELSE 1)

\* a tool call built, validated, and then acquired, connected and submitted
C9_Witness ==
  \E p \in Procs :
    /\ proc[p].op = "tool"
    /\ proc[p].trace = <<"build", "validate", "acquire", "connect", "submit">>
    /\ proc[p].sent.kind = "txn"
    /\ proc[p].sent.txn.currency = currencyCodeToHex(TOKN)

\* the number of sub-operations stage k is to perform
Expected(w, k) ==
  CASE k = 1 -> w.holdersCount + 1
    [] k = 2 -> Len(w.flags)
    [] k = 3 -> w.holdersCount
    [] k = 4 -> w.holdersCount

\* every sub-operation of stage k was issued and has completed
Completed(w, k) ==
  /\ Len(w.ops[k]) = Expected(w, k)
  /\ \A i \in 1..Len(w.ops[k]) : w.ops[k][i].st = "ok"

\* C10: the four stages run in the order create-wallets, setup-issuer-account,
\* create-trust-lines, mint-tokens, one step forward at a time and never back:
\* a stage has issued sub-operations, or has been entered, only if every
\* sub-operation of each earlier stage has completed.
C10_StagesInOrder ==
  /\ [](\A k \in 1..4 :
          /\ wf.ops[k] # << >> => k <= wf.stage
          /\ (k < 4 /\ (wf.stage > k \/ wf.ops[k + 1] # << >>)) => Completed(wf, k))
  /\ [][/\ wf'.stage # wf.stage =>
             /\ wf'.stage = wf.stage + 1
             /\ wf.status # "failed"
             /\ wf.stage >= 1 => Completed(wf, wf.stage)
             /\ wf'.ops[wf'.stage] = << >>
        /\ \A k \in 1..4 : Len(wf'.ops[k]) >= Len(wf.ops[k])]_vars

\* a run with two holders and two flags went through all four stages
C10_Witness ==
  /\ wf.status = "done" /\ wf.stage = 4
  /\ wf.holdersCount = 2 /\ Len(wf.flags) = 2
  /\ \A k \in 1..4 : Completed(wf, k)

\* a sub-operation of stage k failed
SubOpFailed(w, k) == \E i \in 1..Len(w.ops[k]) : w.ops[k][i].st = "failed"

\* C11: when a trust-line submission of stage 3 fails for one holder, the run
\* ends with the error of stage 3 and stage 4 issues nothing for any holder; in
\* general a stage that throws ends the run with its own error, no later stage
\* has issued or ever issues a sub-operation, and the run stays ended.
C11_FailedStageEndsRun ==
  /\ [](/\ SubOpFailed(wf, 3) =>
             /\ wf.status = "failed" /\ wf.stage = 3
             /\ wf.error = "Failed to create trust lines"
             /\ wf.ops[4] = << >>
        /\ \A k \in 1..4 :
             SubOpFailed(wf, k) => (wf.status = "failed" /\ wf.stage = k)
        /\ wf.status = "failed" =>
             /\ wf.error = StageErrorMessage[wf.stage]
             /\ \A k \in 1..4 : k > wf.stage => wf.ops[k] = << >>
             /\ proc[Wf].pc = "idle")
  /\ [][wf.status = "failed" =>
          /\ wf'.status = "failed" /\ wf'.stage = wf.stage /\ wf'.error = wf.error
          /\ \A k \in 1..4 : Len(wf'.ops[k]) = Len(wf.ops[k])
          /\ proc'[Wf] = proc[Wf]]_vars

\* the second holder's trust line failed after the first one's succeeded, and
\* nothing was minted
C11_Witness ==
  /\ wf.status = "failed" /\ wf.stage = 3
  /\ wf.holdersCount = 2
  /\ wf.ops[3][1].st = "ok" /\ wf.ops[3][2].st = "failed"
  /\ wf.error = "Failed to create trust lines"
  /\ wf.ops[4] = << >>

\* the accounts stage 1 handed on: the issuer and the holders
AccountsOf(w) == {w.issuer} \cup {w.holders[i] : i \in 1..Len(w.holders)}

\* C12: createWallets issues the N+1 funding requests together, before any
\* of them is awaited; it returns only when all N+1 have succeeded, and then
\* with one issuer and N holders, each the wallet of its own request and all
\* distinct; when a request fails the stage fails and hands on no account.
C12_ProvisionAllOrNothing ==
  /\ [](/\ wf.ops[1] # << >> => Len(wf.ops[1]) = wf.holdersCount + 1
        /\ wf.stage = 1 => (wf.issuer = None /\ wf.holders = << >>)
        /\ wf.stage > 1 =>
             /\ Completed(wf, 1)
             /\ wf.issuer # None /\ wf.issuer = wf.ops[1][1].wallet
             /\ Len(wf.holders) = wf.holdersCount
             /\ \A i \in 1..Len(wf.holders) :
                  wf.holders[i] # None /\ wf.holders[i] = wf.ops[1][i + 1].wallet
             /\ Cardinality(AccountsOf(wf)) = wf.holdersCount + 1
        /\ SubOpFailed(wf, 1) =>
             /\ wf.status = "failed" /\ wf.stage = 1
             /\ wf.issuer = None /\ wf.holders = << >>)
  /\ [][Len(wf'.ops[1]) # Len(wf.ops[1]) =>
          /\ wf.ops[1] = << >>
          /\ Len(wf'.ops[1]) = wf'.holdersCount + 1
          /\ \A i \in 1..Len(wf'.ops[1]) : wf'.ops[1][i].st = "inflight"]_vars

\* stage 1 handed on an issuer and the largest number of holders, all distinct
C12_Witness ==
  /\ wf.stage = 2 /\ wf.holdersCount = MaxHolders
  /\ wf.issuer # None /\ Len(wf.holders) = MaxHolders
  /\ Cardinality(AccountsOf(wf)) = MaxHolders + 1

IsPrefix(s, t) == Len(s) <= Len(t) /\ \A i \in 1..Len(s) : t[i] = s[i]

\* the stage whose output the context currently is
ReturnedStage(w) == IF w.status = "done" THEN 4 ELSE w.stage - 1

\* C13 as stated: txnResults is append-only across stages: what an earlier
\* stage recorded stays, unchanged and in place, in the context every later
\* stage returns, and the final context holds the results of stages 2, 3 and
\* 4 in this order.
C13_ResultLogAppendOnly ==
  /\ [](wf.status = "done" =>
          Len(wf.txnResults) = Expected(wf, 2) + Expected(wf, 3) + Expected(wf, 4))
  /\ [][IsPrefix(wf.txnResults, wf'.txnResults)]_vars

\* C13 amended: the txnResults of the context a stage returns are the results
\* of that stage's own transactions, one per transaction and in their order;
\* the results of earlier stages are not carried over, so the final context
\* holds the results of stage 4 only.
C13_ResultLogPerStage ==
  LET k == ReturnedStage(wf) IN
  IF k < 2 THEN wf.txnResults = << >>
  ELSE /\ Len(wf.txnResults) = Expected(wf, k)
       /\ \A i \in 1..Len(wf.txnResults) : wf.txnResults[i].hash = <<k, i>>

\* a finished run with two flags and two holders whose log holds the two mints
C13_Witness ==
  /\ wf.status = "done"
  /\ Len(wf.flags) = 2 /\ wf.holdersCount = 2
  /\ Len(wf.txnResults) = 2
  /\ \A i \in 1..2 : wf.txnResults[i].hash = <<4, i>>

\* q invokes getXrplClient(n) while the call of p, which found no entry for n
\* and constructed an object, still awaits that object's connect, and no
\* disconnectXrplClient(n) was invoked or has completed in between
FirstCallersOverlap(p, q, n) ==
  /\ p # q
  /\ GetInvoked(q, n)
  /\ proc[p].pc = "connecting" /\ proc[p].net = n /\ proc[p].made
  /\ conn[proc[p].client] = "connecting"
  /\ lastAcquired[n] = proc[p].client

\* C14 as stated, on the interleaving it describes: when a second first-time
\* getXrplClient(e) is invoked while the first one still awaits its connect,
\* the second constructs an object of its own and one of the two objects is
\* left outside the registry.
C14_FirstCallersRace ==
  [][\A n \in Networks : \A p, q \in Procs :
       FirstCallersOverlap(p, q, n) =>
          /\ proc'[q].made
          /\ proc'[q].client # proc[p].client
          /\ \E c \in {proc[p].client, proc'[q].client} : clientInstances'[n] # c]_vars

\* C14 amended: the first caller caches its object before it suspends, so a
\* second getXrplClient(e) invoked while the first still awaits its connect
\* finds that entry, constructs nothing and awaits the connect of the same
\* object; the registry keeps holding that one object and none is leaked.
C14_FirstCallersShare ==
  [][\A n \in Networks : \A p, q \in Procs :
       FirstCallersOverlap(p, q, n) =>
          /\ clientInstances[n] = proc[p].client
          /\ ~proc'[q].made
          /\ proc'[q].client = proc[p].client
          /\ proc'[q].pc = "connecting"
          /\ nextClient' = nextClient
          /\ clientInstances' = clientInstances]_vars

\* two first callers await the connect of the one object the first constructed
C14_Witness ==
  \E p, q \in Procs :
    /\ p # q
    /\ proc[p].pc = "connecting" /\ proc[q].pc = "connecting"
    /\ proc[p].made /\ ~proc[q].made
    /\ proc[p].client = proc[q].client
    /\ clientInstances[proc[p].net] = proc[p].client
    /\ nextClient = 2

\* the connect awaited by p's getXrplClient is rejected in this step
ConnectRejected(p) ==
  /\ proc[p].pc = "connecting"
  /\ proc'[p].pc \notin {"connecting", "acquired"}

\* C15: when connect fails during getXrplClient the failure reaches the caller
\* at once: the call ends with the connection error, having attempted connect
\* exactly once and nothing after it; no acquire ever makes a second attempt.
C15_ConnectFailsOnce ==
  /\ [](\A p \in Procs : Count(proc[p].trace, "connect") <= Count(proc[p].trace, "acquire"))
  /\ [][\A p \in Procs :
          ConnectRejected(p) =>
             /\ proc'[p].pc = "idle"
             /\ proc'[p].result = "connectError"
             /\ proc'[p].trace = proc[p].trace
             /\ Count(proc'[p].trace, "connect") = 1
             /\ proc'[p].trace[Len(proc'[p].trace)] = "connect"
             /\ conn'[proc[p].client] = "closed"]_vars

\* a submission whose connect was rejected threw the connection error after
\* its single attempt
C15_Witness ==
  \E p \in Procs :
    /\ Finished(p) /\ proc[p].op = "submit"
    /\ proc[p].result = "connectError"
    /\ proc[p].trace = <<"acquire", "connect">>
    /\ conn[proc[p].client] = "closed"

\* C16: a failed connect results in removal from the registry: once the
\* connect attempted by an acquire (made directly or inside submitTransaction)
\* has thrown, the registry holds no entry for that endpoint.
C16_FailedConnectUncached ==
  [][\A p \in Procs :
       ConnectRejected(p) => clientInstances'[proc[p].net] = None]_vars

\* p invokes disconnectXrplClient in this step, on its own or in the finally
\* block of submitTransaction
ReleaseInvoked(p) ==
  \/ proc[p].pc = "idle" /\ proc'[p] # proc[p] /\ proc'[p].op = "release"
  \/ proc[p].pc \in {"acquired", "submitting"} /\ Has(proc'[p].trace, "release")

\* the disconnect awaited by p's disconnectXrplClient settles in this step
ReleaseSettles(p) == proc[p].pc = "disconnecting" /\ proc'[p].pc = "idle"

\* what disconnectXrplClient(n) does when it is invoked: nothing at all when no
\* entry is cached, else it calls disconnect on the cached object and suspends
ReleaseStarts(p) ==
  LET n == proc'[p].net IN
  /\ regVars' = regVars
  /\ IF clientInstances[n] = None
       THEN /\ proc'[p].pc = "idle"
            /\ ~Has(proc'[p].trace, "disconnect")
       ELSE /\ proc'[p].pc = "disconnecting"
            /\ proc'[p].dcl = clientInstances[n]
            /\ proc'[p].trace[Len(proc'[p].trace)] = "disconnect"

\* C17 as stated: disconnectXrplClient(e) disconnects the cached connection
\* and removes the entry of e whenever one is cached, and does nothing (no
\* transport call, registry unchanged) when none is; a second call in a row
\* therefore finds nothing to do.
C17_ReleaseRemoves ==
  /\ [](\A n \in Networks : lastReleased[n] # {} => clientInstances[n] = None)
  /\ [][\A p \in Procs :
          /\ ReleaseInvoked(p) => ReleaseStarts(p)
          /\ ReleaseSettles(p) =>
               /\ conn'[proc[p].dcl] = "closed"
               /\ clientInstances'[proc[p].net] = None]_vars

\* C17 amended: disconnectXrplClient(e) does nothing when no entry is cached;
\* when one is, it calls disconnect on the cached object and, when that
\* returns, deletes the entry e has at that moment, leaving every other
\* endpoint alone; when disconnect throws, the error propagates and the
\* entry and the connection stay as they are.  After a release that completed
\* and until the next acquire there is no entry, so a second call is a no-op.
C17_ReleaseRemovesUnlessThrows ==
  /\ [](\A n \in Networks : lastReleased[n] # {} => clientInstances[n] = None)
  /\ [][\A p \in Procs :
          /\ ReleaseInvoked(p) => ReleaseStarts(p)
          /\ ReleaseSettles(p) =>
               /\ <<clientUrl, nextClient>>' = <<clientUrl, nextClient>>
               /\ IF proc'[p].result = "disconnectError"
                    THEN clientInstances' = clientInstances /\ conn' = conn
                    ELSE /\ proc'[p].result = proc[p].pending
                         /\ conn' = [conn EXCEPT ![proc[p].dcl] = "closed"]
                         /\ clientInstances' =
                              [clientInstances EXCEPT ![proc[p].net] = None]]_vars

\* a release found nothing cached right after a completed release
C17_Witness ==
  \E p \in Procs :
    /\ Finished(p) /\ proc[p].op = "release"
    /\ proc[p].trace = <<"release">>
    /\ proc[p].result = "ok"
    /\ lastReleased[proc[p].net] # {}
    /\ clientInstances[proc[p].net] = None

\* position of the first occurrence of e in t (0 when there is none)
First(t, e) ==
  IF Has(t, e) THEN CHOOSE i \in 1..Len(t) : t[i] = e /\ \A j \in 1..(i - 1) : t[j] # e
  ELSE 0

\* the submitAndWait of p's call was rejected
SubmitFailed(r) == IsCall(r) /\ r.pending = "submitError"

\* C18 as stated: a submitTransaction call invokes submitAndWait at most once,
\* and when that submission fails the caller receives its failure, after the
\* connection has been released.
C18_FailurePropagates ==
  \A p \in Procs :
    /\ IsCall(proc[p]) => Count(proc[p].trace, "submit") <= 1
    /\ SubmitFailed(proc[p]) =>
         /\ First(proc[p].trace, "release") > First(proc[p].trace, "submit")
         /\ Finished(p) => proc[p].result = "submitError"

\* C18 amended: a submitTransaction call invokes submitAndWait at most once;
\* when that submission fails, disconnectXrplClient is invoked next and nothing
\* is submitted again, and the caller receives the submission's failure, unless
\* the disconnect of that release throws: then the caller receives the
\* disconnect error instead.
C18_NoRetry ==
  \A p \in Procs :
    /\ IsCall(proc[p]) => Count(proc[p].trace, "submit") <= 1
    /\ SubmitFailed(proc[p]) =>
         /\ Count(proc[p].trace, "submit") = 1
         /\ First(proc[p].trace, "release") = First(proc[p].trace, "submit") + 1
         /\ Finished(p) =>
              /\ proc[p].result \in {"submitError", "disconnectError"}
              /\ proc[p].result = "disconnectError" => Has(proc[p].trace, "disconnect")

\* a submission failed once, the connection was released, and the caller
\* received the submission's failure
C18_Witness ==
  \E p \in Procs :
    /\ Finished(p) /\ proc[p].op = "submit"
    /\ proc[p].pending = "submitError" /\ proc[p].result = "submitError"
    /\ proc[p].trace = <<"acquire", "connect", "submit", "release", "disconnect">>
    /\ proc[p].client \notin connected

\* p's submitTransaction has resumed after `await getXrplClient(...)`
PastAcquire(r) == r.pc \in {"submitting", "disconnecting"} \/ Has(r.trace, "release")

\* C19: submitTransaction decides what to submit only after it has acquired
\* the connection.  Given a seed and a txn it submits that txn, signed with the
\* wallet derived from the seed and with autofill on (a seed no wallet derives
\* from makes the derivation throw); otherwise, given a signature, it submits
\* the blob as it is; otherwise, a seed without txn included, it fails with
\* the error and submits nothing.  (For a call made by a tool, seed, signature
\* and txn are what the tool handed to submitTransaction.)
C19_Dispatch ==
  \A p \in Procs :
    IsCall(proc[p]) =>
      LET r == proc[p] IN
      /\ ~PastAcquire(r) => r.sent = NoSent
      /\ Has(r.trace, "submit") => First(r.trace, "acquire") < First(r.trace, "submit")
      /\ PastAcquire(r) =>
           IF Truthy(r.seed) /\ r.txn # NoTxn
             THEN IF r.seed = "s"
                    THEN /\ Has(r.trace, "submit")
                         /\ r.sent = [kind |-> "txn", txn |-> r.txn, blob |-> Undef,
                                       wallet |-> "wallet of s", autofill |-> TRUE]
                    ELSE /\ r.sent = NoSent /\ r.pending = "walletError"
           ELSE IF Truthy(r.signature)
             THEN /\ Has(r.trace, "submit")
                  /\ r.sent = [kind |-> "blob", txn |-> NoTxn, blob |-> r.signature,
                                wallet |-> Undef, autofill |-> FALSE]
           ELSE /\ r.sent = NoSent /\ ~Has(r.trace, "submit")
                /\ r.pending = "authError"
                /\ Finished(p) => r.result \in {"authError", "disconnectError"}

\* a call given a seed but no txn, and a signature, submitted the blob
C19_Witness ==
  \E p \in Procs :
    /\ proc[p].op = "submit" /\ Finished(p)
    /\ proc[p].seed = "s" /\ proc[p].txn = NoTxn /\ proc[p].signature = "s"
    /\ proc[p].sent.kind = "blob" /\ proc[p].sent.blob = "s"
    /\ proc[p].result = "ok"

\* the stages that issue their sub-operations as one concurrent batch
BatchStages == {1, 3}

\* C20: in the batches of stage 1 (funding requests) and stage 3 (trust-line
\* submissions) one failing sub-operation fails the stage at once, whatever
\* its siblings are doing; the step in which the stage throws changes no
\* sibling, so those in flight stay in flight and complete on their own; a
\* sub-operation that has completed is never changed again, and once the run
\* has failed nothing further (no compensating request or transaction) is
\* issued.
C20_BatchFailsFast ==
  /\ [](\A k \in BatchStages :
          SubOpFailed(wf, k) => (wf.status = "failed" /\ wf.stage = k))
  /\ [][/\ \A k \in 1..4 : \A i \in 1..Len(wf.ops[k]) :
             /\ i <= Len(wf'.ops[k])
             /\ wf'.ops[k][i].tx = wf.ops[k][i].tx
             /\ wf.ops[k][i].st # "inflight" => wf'.ops[k][i] = wf.ops[k][i]
        /\ (wf.status = "running" /\ wf'.status = "failed" /\ wf.stage \in BatchStages) =>
             LET b  == wf.ops[wf.stage]
                 b1 == wf'.ops[wf.stage]
             IN \/ b = << >> /\ b1 = << >>
                \/ \E i \in 1..Len(b) :
                     /\ b[i].st = "inflight" /\ b1[i].st = "failed"
                     /\ \A j \in 1..Len(b) : j # i => b1[j] = b[j]
        /\ wf.status = "failed" =>
             \A k \in 1..4 : Len(wf'.ops[k]) = Len(wf.ops[k])]_vars

\* the trust-line stage has thrown on its first holder's failure while the
\* second holder's submission is still in flight
C20_Witness ==
  /\ wf.status = "failed" /\ wf.stage = 3
  /\ wf.holdersCount = 2
  /\ wf.ops[3][1].st = "failed" /\ wf.ops[3][2].st = "inflight"
  /\ Completed(wf, 1)

\* C21: setupIssuerAccount submits one AccountSet per flag, each of the
\* issuer's account and signed by the issuer, setting the flags in the order
\* they were given and one after another: the next one is submitted only when
\* the one before has been fulfilled.  The context the stage returns holds
\* one result per flag, in the order of the flags.
C21_FlagsInSequence ==
  /\ [][Len(wf'.ops[2]) <= Len(wf.ops[2]) + 1]_vars
  /\ [](/\ Len(wf.ops[2]) <= Len(wf.flags)
        /\ \A i \in 1..Len(wf.ops[2]) : i < Len(wf.ops[2]) => wf.ops[2][i].st = "ok"
        /\ \A i \in 1..Len(wf.ops[2]) :
             LET tx == wf.ops[2][i].tx IN
             /\ tx.type = "AccountSet"
             /\ tx.Account = wf.issuer /\ tx.wallet = wf.issuer
             /\ tx.SetFlag = FlagValue(wf.flags[i]) /\ tx.SetFlag # 0
        /\ (wf.stage = 3 /\ wf.status = "running" /\ wf.ops[3] = << >> /\ wf.hasFlags) =>
             /\ Completed(wf, 2)
             /\ Len(wf.txnResults) = Len(wf.flags)
             /\ \A i \in 1..Len(wf.flags) :
                  /\ wf.txnResults[i].description = <<"Set flag", wf.flags[i]>>
                  /\ wf.txnResults[i].hash = <<2, i>>)

\* the second of two flags is being set, the first one is
C21_Witness ==
  /\ wf.stage = 2 /\ Len(wf.flags) = 2 /\ Len(wf.ops[2]) = 2
  /\ wf.ops[2][1].st = "ok" /\ wf.ops[2][2].st = "inflight"
  /\ wf.ops[2][1].tx.SetFlag = 2 /\ wf.ops[2][2].tx.SetFlag = 8

\* C22: createTrustLines submits exactly one TrustSet per holder, of that
\* holder's account, signed by that holder and with the issuer as the limit's
\* issuer; all of them are issued in one go, before any is awaited.  When all
\* have succeeded the context the stage returns holds exactly one result per
\* holder, the i-th being that of the i-th holder's transaction, in whatever
\* order the submissions completed.
C22_TrustLinesTogether ==
  /\ [][Len(wf'.ops[3]) # Len(wf.ops[3]) =>
          /\ wf.ops[3] = << >>
          /\ \A i \in 1..Len(wf'.ops[3]) : wf'.ops[3][i].st = "inflight"]_vars
  /\ [](/\ wf.ops[3] # << >> => Len(wf.ops[3]) = wf.holdersCount
        /\ \A i \in 1..Len(wf.ops[3]) :
             LET tx == wf.ops[3][i].tx IN
             /\ tx.type = "TrustSet"
             /\ tx.Account = wf.holders[i] /\ tx.wallet = wf.holders[i]
             /\ tx.issuer = wf.issuer
             /\ \A j \in 1..Len(wf.ops[3]) : j # i => wf.ops[3][j].tx.Account # tx.Account
        /\ (wf.stage = 4 /\ wf.ops[4] = << >> /\ proc[Wf].pc \in {"connecting", "acquired"}) =>
             /\ Completed(wf, 3)
             /\ Len(wf.txnResults) = wf.holdersCount
             /\ \A i \in 1..Len(wf.txnResults) :
                  /\ wf.txnResults[i].hash = <<3, i>>
                  /\ wf.txnResults[i].description = <<"Created trust line for", wf.issuer>>)

\* stage 3 has returned its three results after the last holder's submission
\* completed first and the first holder's last
C22_Witness ==
  /\ wf.stage = 4 /\ wf.ops[4] = << >> /\ wf.holdersCount = 3
  /\ wf.ops[3][3].rank = 1 /\ wf.ops[3][1].rank = 3
  /\ Len(wf.txnResults) = 3 /\ wf.txnResults[1].hash = <<3, 1>>

\* C23: mintTokens submits exactly one Payment per holder, from the issuer's
\* account and signed by the issuer, to the holders in their order and one
\* after another: at most one of them is outstanding at any time and the next
\* one is submitted only when the one before has been fulfilled.  When all have
\* succeeded the context the stage returns holds one result per holder.
C23_MintsInSequence ==
  /\ [][Len(wf'.ops[4]) <= Len(wf.ops[4]) + 1]_vars
  /\ [](/\ Len(wf.ops[4]) <= wf.holdersCount
        /\ Cardinality({i \in 1..Len(wf.ops[4]) : wf.ops[4][i].st = "inflight"}) <= 1
        /\ \A i \in 1..Len(wf.ops[4]) :
             LET tx == wf.ops[4][i].tx IN
             /\ i < Len(wf.ops[4]) => wf.ops[4][i].st = "ok"
             /\ tx.type = "Payment"
             /\ tx.Account = wf.issuer /\ tx.wallet = wf.issuer
             /\ tx.Destination = wf.holders[i]
             /\ tx.value = wf.mintAmount /\ tx.issuer = wf.issuer
        /\ wf.status = "done" =>
             /\ Completed(wf, 4)
             /\ Len(wf.txnResults) = wf.holdersCount
             /\ \A i \in 1..Len(wf.txnResults) :
                  /\ wf.txnResults[i].hash = <<4, i>>
                  /\ wf.txnResults[i].description[4] = wf.holders[i])

\* the payment to the third holder is outstanding, the first two are through
C23_Witness ==
  /\ wf.stage = 4 /\ wf.holdersCount = 3 /\ Len(wf.ops[4]) = 3
  /\ wf.ops[4][1].st = "ok" /\ wf.ops[4][2].st = "ok" /\ wf.ops[4][3].st = "inflight"
  /\ wf.ops[4][3].tx.Destination = wf.holders[3]

\* the workflow's run is over, by the return of mintTokens or by a stage's throw
Terminated(w) == w.status \in {"done", "failed"}

\* the workflow never calls disconnectXrplClient or disconnect; every
\* sub-operation of every stage goes to the one object the registry holds for
\* the workflow's network, no second object is constructed, and when the run is
\* over that object is still cached (and, after a full run, still connected)
WorkflowKeepsConnection ==
  /\ ~Has(proc[Wf].trace, "release") /\ ~Has(proc[Wf].trace, "disconnect")
  /\ nextClient <= 2
  /\ wf.status # "idle" =>
       /\ clientInstances[WfNetwork] # None
       /\ proc[Wf].client = clientInstances[WfNetwork]
       /\ \A k \in 1..4 : \A i \in 1..Len(wf.ops[k]) :
            wf.ops[k][i].client = clientInstances[WfNetwork]
  /\ wf.status = "done" => clientInstances[WfNetwork] \in connected

\* C30 as stated: the workflow acquires the connection in each of its four
\* stages (getXrplClient has been called once per stage entered so far), never
\* releases it, uses the same object throughout, and leaves it cached when the
\* run is over.
C30_AcquiredInEveryStage ==
  /\ WorkflowKeepsConnection
  /\ Count(proc[Wf].trace, "acquire") = wf.stage

\* C30 amended: the workflow acquires the connection in each stage it enters,
\* except that setupIssuerAccount acquires none when no flags are given; it
\* never releases it, uses the same object throughout, and leaves it cached
\* when the run is over.
C30_AcquiredNeverReleased ==
  /\ WorkflowKeepsConnection
  /\ Count(proc[Wf].trace, "acquire") =
       wf.stage - (IF wf.stage >= 2 /\ wf.flags = << >> THEN 1 ELSE 0)

\* a full run with flags is over: four acquisitions, the object still cached
\* and connected
C30_Witness ==
  /\ wf.status = "done" /\ wf.flags # << >> /\ wf.holdersCount > 0
  /\ Count(proc[Wf].trace, "acquire") = 4
  /\ clientInstances[WfNetwork] \in connected

\* getXrplClient(n) is invoked by p and finds a cached object that is not
\* connected
FindsDeadEntry(p, n) ==
  /\ GetInvoked(p, n)
  /\ clientInstances[n] # None
  /\ clientInstances[n] \notin connected

\* C24: when getXrplClient(e) finds a cached object for e that is not
\* connected, it calls connect on that same object and, when the connect
\* succeeds, returns it: it constructs no object and leaves the registry as it
\* is, from its invocation to its return.
C24_ReconnectInPlace ==
  [][\A p \in Procs :
       /\ \A n \in Networks :
            FindsDeadEntry(p, n) =>
              /\ proc'[p].client = clientInstances[n]
              /\ proc'[p].pc = "connecting" /\ ~proc'[p].made
              /\ conn'[clientInstances[n]] = "connecting"
              /\ proc'[p].trace[Len(proc'[p].trace)] = "connect"
              /\ nextClient' = nextClient
              /\ clientInstances' = clientInstances /\ clientUrl' = clientUrl
       /\ (proc[p].pc = "connecting" /\ proc'[p].pc = "acquired") =>
              /\ proc'[p].client = proc[p].client
              /\ proc'[p].client \in connected'
              /\ nextClient' = nextClient
              /\ clientInstances' = clientInstances /\ clientUrl' = clientUrl]_vars

\* a query was handed the object that an earlier getAccountLines call had
\* closed and left in the registry, reconnected
C24_Witness ==
  \E p, q \in Procs :
    /\ p # q
    /\ proc[q].op = "lines" /\ Finished(q) /\ proc[q].result = "ok"
    /\ proc[p].pc = "acquired" /\ ~proc[p].made /\ Has(proc[p].trace, "connect")
    /\ proc[p].client = proc[q].client
    /\ clientInstances[proc[p].net] = proc[p].client
    /\ nextClient = 2

\* p's executeMethod call, having issued its request, returns or throws in
\* this step
QueryExits(p) ==
  /\ proc[p].op = "query" /\ Has(proc[p].trace, "request")
  /\ proc[p].pc # "idle" /\ proc'[p].pc = "idle"

\* C27: whenever executeMethod finishes, by returning or by throwing, the
\* registry holds no entry for its network (stated for the calls that got
\* their connection and issued the request).
C27_QueryLeavesNoEntry ==
  [][\A p \in Procs :
       QueryExits(p) => clientInstances'[proc[p].net] = None]_vars

\* the release of p's submission settles while the submitAndWait of q's
\* submission is outstanding on the object p's release disconnects
ReleaseUnderSubmit(p, q) ==
  /\ p # q
  /\ IsCall(proc[p]) /\ ReleaseSettles(p)
  /\ IsCall(proc[q]) /\ proc[q].pc = "submitting"
  /\ proc[q].net = proc[p].net /\ proc[q].client = proc[p].dcl

\* C28: when two submissions share the connection object of one endpoint, the
\* release performed by the one that finishes first never disconnects or
\* un-caches that object while the other's submitAndWait is still outstanding.
C28_ReleaseSparesOutstanding ==
  [][\A p, q \in Procs :
       ReleaseUnderSubmit(p, q) =>
         /\ conn'[proc[q].client] = conn[proc[q].client]
         /\ clientInstances'[proc[q].net] = clientInstances[proc[q].net]]_vars

\* p was handed a connection by getXrplClient and has not started its release
Holds(p) == proc[p].pc \in {"acquired", "submitting"}

\* C29: every connection handed out stays cached until its holder's own
\* release; in particular a getXrplClient(e) call that runs while a
\* disconnectXrplClient(e) call is suspended in disconnect never returns an
\* object that is removed from the registry while its caller still holds it.
C29_HeldStaysCached ==
  \A p \in Procs :
    Holds(p) => clientInstances[proc[p].net] = proc[p].client

\* h is the 40-digit code of c: two hex digits per character of c, then zeros
IsPaddedHexOf(h, c) ==
  /\ Len(h) = 40
  /\ \A i \in 1..40 :
       h[i] = IF i > 2 * Len(c) THEN "0"
              ELSE IF i % 2 = 1 THEN HexDigit[(CharCode[c[(i + 1) \div 2]] \div 16) + 1]
              ELSE HexDigit[(CharCode[c[i \div 2]] % 16) + 1]

\* C25: the TrustSet builder turns every currency code longer than 3
\* characters into a string of 40 hexadecimal digits, the code's characters in
\* hex padded on the right with "0", and hands a 3-character code on unchanged.
C25_CurrencyTo40Hex ==
  \A p \in ToolProcs :
    (proc[p].op = "build" /\ proc[p].txn.kind = "TrustSet") =>
      LET c == proc[p].context.txn.currency
          h == proc[p].txn.currency
      IN /\ Len(c) = 3 => h = c
         /\ Len(c) > 3 => IsPaddedHexOf(h, c)

\* a validator invocation on p's built descriptor happens in this step
ValidatorRuns(p) ==
  /\ Len(proc'[p].trace) = Len(proc[p].trace) + 1
  /\ proc'[p].trace[Len(proc'[p].trace)] = "validate"

NoFlags(w) == w.status # "idle" /\ (~w.hasFlags \/ w.flags = << >>)

\* C31: when the issuer settings contain no flags, setupIssuerAccount acquires
\* no connection (the run enters and leaves the stage with the registry, the
\* transport and the trace of its calls untouched), submits no transaction (so
\* a supplied domain is never set), returns an empty result list, and hands on
\* issuer, holders and every other input exactly as createWallets returned
\* them.
C31_NoFlagsPassThrough ==
  /\ [](NoFlags(wf) =>
          /\ wf.ops[2] = << >>
          /\ \A k \in 1..4 : \A i \in 1..Len(wf.ops[k]) : wf.ops[k][i].tx.Domain = << >>
          /\ wf.stage = 2 =>
               /\ Count(proc[Wf].trace, "acquire") = 1
               /\ wf.txnResults = << >>
          /\ (wf.stage >= 2 /\ wf.status # "failed") =>
               /\ wf.issuer = wf.ops[1][1].wallet
               /\ Len(wf.holders) = wf.holdersCount
               /\ \A i \in 1..Len(wf.holders) : wf.holders[i] = wf.ops[1][i + 1].wallet)
  /\ [][(NoFlags(wf) /\ wf.stage = 1 /\ wf'.stage = 2) =>
          /\ proc' = proc /\ regVars' = regVars
          /\ wf'.txnResults = << >>]_vars
  /\ [][(NoFlags(wf) /\ wf.stage = 2 /\ wf' # wf) =>
          wf' = [wf EXCEPT !.stage = 3, !.txnResults = << >>]]_vars

\* a run without flags but with a domain and two holders has left stage 2: two
\* acquisitions so far, no result, no AccountSet
C31_Witness ==
  /\ NoFlags(wf) /\ wf.domain = SampleDomain /\ wf.holdersCount = 2
  /\ wf.stage = 3 /\ wf.status = "running" /\ wf.ops[3] = << >>
  /\ Count(proc[Wf].trace, "acquire") = 2
  /\ wf.txnResults = << >> /\ Len(wf.holders) = 2

SequentialStages == {2, 4}

\* the position at which sequential stage k of the failed run w failed: that
\* of its rejected submission, or of the invalid flag it stopped at
FailedAt(w, k) ==
  IF SubOpFailed(w, k) THEN CHOOSE i \in 1..Len(w.ops[k]) : w.ops[k][i].st = "failed"
  ELSE Len(w.ops[k]) + 1

\* C32: when a sequential stage fails at position k (the submission of the
\* k-th flag's AccountSet or of the k-th holder's Payment is rejected, or the
\* k-th flag is no known flag), the transactions of the positions before k,
\* and only they, have gone through, and they stay as they are; nothing is
\* submitted for position k+1 or later, then or ever after; and the stage
\* ends with its error message alone: none of the results it had collected is
\* in what the workflow holds.
C32_SequentialStageFailure ==
  /\ [](\A k \in SequentialStages :
          (wf.status = "failed" /\ wf.stage = k) =>
            LET b == wf.ops[k]
                j == FailedAt(wf, k)
            IN /\ j <= Expected(wf, k)
               /\ Len(b) = (IF SubOpFailed(wf, k) THEN j ELSE j - 1)
               /\ \A i \in 1..(j - 1) : b[i].st = "ok"
               /\ k = 2 /\ ~SubOpFailed(wf, k) => InvalidFlagAt(wf, j)
               /\ wf.error = StageErrorMessage[k]
               /\ \A i \in 1..Len(wf.txnResults) : wf.txnResults[i].hash[1] # k)
  /\ [][\A k \in SequentialStages :
          (wf.status = "failed" /\ wf.stage = k) =>
             (wf'.ops[k] = wf.ops[k] /\ wf'.txnResults = wf.txnResults
                /\ wf'.status = "failed")]_vars

\* the Payment to the second of three holders was rejected: the first one went
\* through, the third was never submitted
C32_Witness ==
  /\ wf.status = "failed" /\ wf.stage = 4 /\ wf.holdersCount = 3
  /\ Len(wf.ops[4]) = 2
  /\ wf.ops[4][1].st = "ok" /\ wf.ops[4][2].st = "failed"
  /\ wf.error = "Failed to mint tokens"

\* nothing of endpoint e changes in this step: not its entry, and neither the
\* transport state nor the endpoint of any object constructed for it
EndpointUntouched(e) ==
  /\ clientInstances'[e] = clientInstances[e]
  /\ \A c \in ClientIds :
       IF c < nextClient
         THEN clientUrl[c] = e => (conn'[c] = conn[c] /\ clientUrl'[c] = clientUrl[c])
         ELSE c < nextClient' => clientUrl'[c] # e

\* C33: a step of getXrplClient(e) or disconnectXrplClient(e), from the
\* invocation to the completion of the transport call it awaits, never
\* creates, replaces, disconnects or removes the entry of an endpoint other
\* than e, and the object cached for an endpoint was constructed for it.
C33_EndpointsIsolated ==
  /\ [](\A e \in Networks :
          clientInstances[e] # None => clientUrl[clientInstances[e]] = e)
  /\ [][\A p \in Procs :
          proc'[p] # proc[p] =>
            \A e \in Networks : e # proc'[p].net => EndpointUntouched(e)]_vars

\* a release of one endpoint has removed its entry while the other endpoint's
\* object is still cached and connected
C33_Witness ==
  /\ clientInstances["wss://a"] = None /\ lastReleased["wss://a"] # {}
  /\ clientInstances["wss://b"] # None
  /\ clientInstances["wss://b"] \in connected

\* the disconnect awaited by p's release throws in this step: the transport
\* state of the object stays as it was
DisconnectThrows(p) ==
  /\ ReleaseSettles(p)
  /\ conn'[proc[p].dcl] = conn[proc[p].dcl]
  /\ conn[proc[p].dcl] # "closed"

\* C34: when the transport's disconnect throws during a release, the registry
\* is left as it is (the entry is not removed), and the caller of the release
\* receives the disconnect error; inside submitTransaction's cleanup that error
\* takes the place of the submission's own outcome, its result or its error.
\* A release whose disconnect succeeds hands on that outcome.
C34_DisconnectErrorReplaces ==
  /\ [][\A p \in Procs :
          ReleaseSettles(p) =>
            IF proc'[p].result = "disconnectError"
              THEN /\ clientInstances' = clientInstances /\ conn' = conn
                   /\ proc'[p].pending = proc[p].pending
              ELSE /\ proc'[p].result = proc[p].pending
                   /\ clientInstances'[proc[p].net] = None
                   /\ conn'[proc[p].dcl] = "closed"]_vars
  /\ [][\A p \in Procs : DisconnectThrows(p) => proc'[p].result = "disconnectError"]_vars
  /\ [](\A p \in Procs :
          proc[p].result = "disconnectError" =>
             (Finished(p) /\ proc[p].trace[Len(proc[p].trace)] = "disconnect"))

\* a submission whose submitAndWait was rejected ended with the disconnect
\* error instead, its object still cached
C34_Witness ==
  \E p \in Procs :
    /\ IsCall(proc[p]) /\ Finished(p)
    /\ proc[p].pending = "submitError" /\ proc[p].result = "disconnectError"
    /\ clientInstances[proc[p].net] = proc[p].dcl

\* the transport answers every call and no resumed task is left waiting: each
\* continuation of each task is taken once it stays enabled
FairSpec ==
  /\ Spec
  /\ \A p \in Procs :
       /\ WF_vars(ConnectDone(p)) /\ WF_vars(Resume(p))
       /\ WF_vars(SubmitDone(p)) /\ WF_vars(DisconnectDone(p))

FairSpecWorkflow ==
  /\ SpecWorkflow
  /\ WF_vars(ConnectDone(Wf)) /\ WF_vars(StageIssue)
  /\ WF_vars(StageCatch) /\ WF_vars(StageAdvance)
  /\ WF_vars(\E k \in 1..4, i \in 1..(MaxHolders + 1), ok \in BOOLEAN : SubOpDone(k, i, ok))

\* every submitTransaction call under way eventually returns or throws
SubmissionsTerminate ==
  \A p \in Procs : (IsCall(proc[p]) /\ proc[p].pc # "idle") ~> Finished(p)

\* every workflow run under way eventually ends, by the return of mintTokens or
\* by a stage's throw, and its task is at rest
WorkflowTerminates ==
  (wf.status = "running") ~> (Terminated(wf) /\ proc[Wf].pc = "idle")


\* C35 (as stated, submission half): every submitTransaction call under way
\* eventually returns or throws, and the call that has returned or thrown has
\* invoked its release
C35_TerminatesReleased ==
  /\ \A p \in Procs :
       (proc[p].op = "submit" /\ proc[p].pc # "idle") ~> Finished(p)
  /\ [](\A p \in Procs :
          (proc[p].op = "submit" /\ Finished(p)) => Has(proc[p].trace, "release"))
====
